---- MODULE Spec2Model ----
(***************************************************************************)
(* PayWall402: payment verification and access-grant core.                 *)
(*                                                                         *)
(*   backend/utils/solana.js       verifySolanaTransaction                 *)
(*   backend/routes/payment.js     POST /api/payment/verify                *)
(*   backend/middleware/x402.js    x402PaymentGate, verifyX402Payment      *)
(*   backend/utils/jwt.js          generateAccessToken, verifyAccessToken  *)
(*   backend/db/schema.sql         content, payment_logs                   *)
(*   DatabaseManager               createPayment                           *)
(*                                                                         *)
(* Amounts are JavaScript numbers (IEEE 754 binary64).  They are modelled  *)
(* exactly: a number is a sign and a magnitude, the magnitude an integer   *)
(* multiple of 2^-FracBits held as a sequence of 13-bit limbs, and every   *)
(* arithmetic result is rounded to 53 significant bits, ties to even.      *)
(***************************************************************************)
EXTENDS Integers, Sequences, FiniteSets, Bags, TLC

(***************************************************************************)
(* Natural numbers of arbitrary size: little-endian limbs, no leading zero *)
(***************************************************************************)
Precision == 53
LimbBits  == 13
Base      == 2^LimbBits
FracLimbs == 10
FracBits  == LimbBits * FracLimbs

RECURSIVE Norm(_)
Norm(x) == IF x = <<>> THEN x
           ELSE IF x[Len(x)] = 0 THEN Norm(SubSeq(x, 1, Len(x) - 1)) ELSE x

RECURSIVE BigOfInt(_)
BigOfInt(n) == IF n = 0 THEN <<>> ELSE <<n % Base>> \o BigOfInt(n \div Base)

Limb(x, i) == IF i >= 1 /\ i <= Len(x) THEN x[i] ELSE 0

RECURSIVE BigCmpFrom(_, _, _)
BigCmpFrom(x, y, i) ==
  IF i = 0 THEN 0
  ELSE IF Limb(x, i) > Limb(y, i) THEN 1
  ELSE IF Limb(x, i) < Limb(y, i) THEN -1
  ELSE BigCmpFrom(x, y, i - 1)

BigCmp(x, y) == BigCmpFrom(x, y, IF Len(x) > Len(y) THEN Len(x) ELSE Len(y))

RECURSIVE BigAddFrom(_, _, _, _)
BigAddFrom(x, y, i, carry) ==
  IF i > Len(x) /\ i > Len(y)
  THEN IF carry = 0 THEN <<>> ELSE <<carry>>
  ELSE LET s == Limb(x, i) + Limb(y, i) + carry
       IN  <<s % Base>> \o BigAddFrom(x, y, i + 1, s \div Base)

BigAdd(x, y) == BigAddFrom(x, y, 1, 0)

RECURSIVE BigSubFrom(_, _, _, _)
BigSubFrom(x, y, i, borrow) ==
  IF i > Len(x) THEN <<>>
  ELSE LET d == Limb(x, i) - Limb(y, i) - borrow
       IN  IF d < 0 THEN <<d + Base>> \o BigSubFrom(x, y, i + 1, 1)
                    ELSE <<d>> \o BigSubFrom(x, y, i + 1, 0)

\* x - y for x >= y
BigSub(x, y) == Norm(BigSubFrom(x, y, 1, 0))

RECURSIVE ColSum(_, _, _, _)
ColSum(x, y, k, i) ==
  IF i > Len(x) \/ i > k THEN 0
  ELSE Limb(x, i) * Limb(y, k + 1 - i) + ColSum(x, y, k, i + 1)

RECURSIVE BigMulFrom(_, _, _, _)
BigMulFrom(x, y, k, carry) ==
  IF k > Len(x) + Len(y) THEN <<>>
  ELSE LET col == ColSum(x, y, k, 1)
           s   == (col % Base) + carry
       IN  <<s % Base>> \o BigMulFrom(x, y, k + 1, (col \div Base) + (s \div Base))

BigMul(x, y) == Norm(BigMulFrom(x, y, 1, 0))

RECURSIVE BitLenInt(_)
BitLenInt(n) == IF n = 0 THEN 0 ELSE 1 + BitLenInt(n \div 2)

BitLen(x) == IF x = <<>> THEN 0 ELSE LimbBits * (Len(x) - 1) + BitLenInt(x[Len(x)])

\* bit i (from 0) of x
Bit(x, i) == (Limb(x, (i \div LimbBits) + 1) \div (2^(i % LimbBits))) % 2

\* some bit below bit j of x is set
LowAny(x, j) ==
  \/ \E i \in 1..(j \div LimbBits) : Limb(x, i) # 0
  \/ Limb(x, (j \div LimbBits) + 1) % (2^(j % LimbBits)) # 0

\* x with its d lowest bits cleared
ClearLow(x, d) ==
  [i \in 1..Len(x) |->
     IF i <= d \div LimbBits THEN 0
     ELSE IF i = (d \div LimbBits) + 1 THEN x[i] - (x[i] % (2^(d % LimbBits)))
     ELSE x[i]]

Pow2Big(d) ==
  [i \in 1..((d \div LimbBits) + 1) |->
     IF i = (d \div LimbBits) + 1 THEN 2^(d % LimbBits) ELSE 0]

ShlLimbs(x, n) == IF x = <<>> THEN x ELSE [i \in 1..n |-> 0] \o x
ShrLimbs(x, n) == IF Len(x) <= n THEN <<>> ELSE SubSeq(x, n + 1, Len(x))

RECURSIVE DivSmallFrom(_, _, _, _)
DivSmallFrom(x, d, i, r) ==
  IF i = 0 THEN [q |-> <<>>, r |-> r]
  ELSE LET cur  == r * Base + x[i]
           rest == DivSmallFrom(x, d, i - 1, cur % d)
       IN  [q |-> rest.q \o <<cur \div d>>, r |-> rest.r]

\* quotient and remainder of x by a small divisor d
BigDivSmall(x, d) == LET res == DivSmallFrom(x, d, Len(x), 0)
                     IN  [q |-> Norm(res.q), r |-> res.r]

\* floor(x / 10^k), and whether anything was cut off
RECURSIVE DivPow10(_, _, _)
DivPow10(x, k, sticky) ==
  IF k = 0 THEN [q |-> x, sticky |-> sticky]
  ELSE LET s == BigDivSmall(x, 10)
       IN  DivPow10(s.q, k - 1, sticky \/ s.r # 0)

(***************************************************************************)
(* IEEE 754 binary64 arithmetic, round to nearest, ties to even            *)
(***************************************************************************)
\* x rounded to Precision significant bits; sticky: the exact value lies
\* strictly above x
RoundToPrecision(x, sticky) ==
  LET d == BitLen(x) - Precision
  IN  IF d <= 0 THEN x
      ELSE LET up == Bit(x, d - 1) = 1
                     /\ (LowAny(x, d - 1) \/ sticky \/ Bit(x, d) = 1)
           IN  IF up THEN BigAdd(Norm(ClearLow(x, d)), Pow2Big(d))
                     ELSE Norm(ClearLow(x, d))

Zero == [neg |-> FALSE, mag |-> <<>>]

\* parseFloat of the decimal numeral n / 10^k (n >= 0): the nearest double
parseFloat(n, k) ==
  LET s == DivPow10(ShlLimbs(BigOfInt(n), FracLimbs), k, FALSE)
  IN  [neg |-> FALSE, mag |-> RoundToPrecision(s.q, s.sticky)]

\* a - b
FSub(a, b) ==
  IF a.neg = b.neg
  THEN LET c == BigCmp(a.mag, b.mag)
       IN  IF c = 0 THEN Zero
           ELSE IF c > 0
           THEN [neg |-> a.neg, mag |-> RoundToPrecision(BigSub(a.mag, b.mag), FALSE)]
           ELSE [neg |-> ~a.neg, mag |-> RoundToPrecision(BigSub(b.mag, a.mag), FALSE)]
  ELSE [neg |-> a.neg, mag |-> RoundToPrecision(BigAdd(a.mag, b.mag), FALSE)]

\* a * b
FMul(a, b) ==
  LET p == RoundToPrecision(BigMul(a.mag, b.mag), FALSE)
  IN  IF p = <<>> THEN Zero
      ELSE [neg |-> a.neg # b.neg, mag |-> ShrLimbs(p, FracLimbs)]

\* Math.abs
FAbs(a) == [neg |-> FALSE, mag |-> a.mag]

\* a > b
FGt(a, b) ==
  IF a.neg /\ ~b.neg THEN FALSE
  ELSE IF ~a.neg /\ b.neg THEN a.mag # <<>> \/ b.mag # <<>>
  ELSE IF ~a.neg THEN BigCmp(a.mag, b.mag) > 0
  ELSE BigCmp(a.mag, b.mag) < 0

FIsZero(a) == a.mag = <<>>

(***************************************************************************)
(* Domains                                                                 *)
(***************************************************************************)
Null == "null"

\* USDC Mainnet Mint Address, and some other token
USDC_MINT_MAINNET == "EPjFWdd5AufqSSqeM2qN1xzybapC8G4wEGGkZwyTDt1v"
OtherMint         == "OtherMint"
\* uiAmount = amount / 10^USDC_DECIMALS
USDC_DECIMALS == 6

CreatorWallet == "CreatorWallet"
OtherWallet   == "OtherWallet"
PayerWallet   == "PayerWallet"

\* what connection.getTransaction answers: a record, null, or an exception
NoTx     == [kind |-> "null"]
RpcError == [kind |-> "error"]

\* one entry of meta.preTokenBalances / meta.postTokenBalances; amount in
\* units of 10^-6 token
Balance(idx, mint, owner, amount) ==
  [accountIndex |-> idx, mint |-> mint, owner |-> owner, amount |-> amount]

\* a transaction of the ledger; commitment is how far the cluster has taken
\* its block: "processed", "confirmed" (voted by a supermajority) or
\* "finalized" (rooted: no fork can drop it any more)
Tx(err, pre, post, keys) ==
  [kind |-> "tx", err |-> err, preTokenBalances |-> pre,
   postTokenBalances |-> post, accountKeys |-> keys, commitment |-> "finalized"]

CommitmentRank(level) ==
  IF level = "processed" THEN 0 ELSE IF level = "confirmed" THEN 1 ELSE 2

Min(S) == CHOOSE x \in S : \A y \in S : x <= y

(***************************************************************************)
(* utils/solana.js: verifySolanaTransaction                                *)
(***************************************************************************)
ErrNotFound    == "Transaction not found on blockchain"
ErrTxFailed    == "Transaction failed on blockchain"
ErrNoTransfers == "No USDC transfers found in transaction"
ErrRecipient   == "Expected recipient not found in transaction"
ErrAmount      == "Transfer amount does not match expected amount"
ErrException   == "Verification failed: <error.message>"

NoDetails == [kind |-> "none"]
Rejected(error, details) == [verified |-> FALSE, error |-> error, details |-> details]
Verified(details)        == [verified |-> TRUE, error |-> Null, details |-> details]

\* the literals 0.001 and 0.01
ToleranceFactor == parseFloat(1, 3)
AbsoluteFloor   == parseFloat(1, 2)

\* lines 53-72: the USDC balance changes, in the order of postTokenBalances
RECURSIVE usdcTransfersFrom(_, _, _)
usdcTransfersFrom(pre, post, i) ==
  IF i > Len(post) THEN <<>>
  ELSE LET p         == post[i]
           found     == {j \in 1..Len(pre) : pre[j].accountIndex = p.accountIndex}
           preAmount == IF found = {} THEN Zero
                        ELSE parseFloat(pre[Min(found)].amount, USDC_DECIMALS)
           change    == FSub(parseFloat(p.amount, USDC_DECIMALS), preAmount)
       IN  (IF p.mint = USDC_MINT_MAINNET /\ ~FIsZero(change)
            THEN << [accountIndex |-> p.accountIndex, owner |-> p.owner,
                     change |-> change, mint |-> p.mint] >>
            ELSE <<>>)
           \o usdcTransfersFrom(pre, post, i + 1)

usdcTransfers(tx) == usdcTransfersFrom(tx.preTokenBalances, tx.postTokenBalances, 1)

\* Array.prototype.find: the first element whose index is in hits, as a
\* sequence of one element, or the empty sequence when there is none
FindFirst(seq, hits) == IF hits = {} THEN <<>> ELSE <<seq[Min(hits)]>>

IsCredit(t) == FGt(t.change, Zero)

\* recipientTransfer with the tiers the other way round: the account keys
\* first, the owner after
recipientByKeysFirst(tx, transfers, expectedRecipient) ==
  LET credits == {i \in 1..Len(transfers) : IsCredit(transfers[i])}
  IN  IF expectedRecipient \in tx.accountKeys
      THEN FindFirst(transfers, credits)
      ELSE FindFirst(transfers,
             {i \in credits : transfers[i].owner = expectedRecipient})

\* recipientTransfer with the fallback taken whatever the account keys are
recipientOrAnyCredit(tx, transfers, expectedRecipient) ==
  LET credits == {i \in 1..Len(transfers) : IsCredit(transfers[i])}
      direct  == FindFirst(transfers,
                   {i \in credits : transfers[i].owner = expectedRecipient})
  IN  IF direct # <<>> THEN direct ELSE FindFirst(transfers, credits)

\* lines 81-102: the recipient's transfer, by owner, else by account keys
recipientTransfer(tx, transfers, expectedRecipient) ==
  LET credits == {i \in 1..Len(transfers) : IsCredit(transfers[i])}
      direct  == FindFirst(transfers,
                   {i \in credits : transfers[i].owner = expectedRecipient})
  IN  IF direct # <<>> THEN direct
      ELSE IF expectedRecipient \in tx.accountKeys
           THEN FindFirst(transfers, credits)
           ELSE <<>>

\* lines 115-130: TRUE when the amount is refused
amountMismatch(amountReceived, expectedAmount) ==
  LET tolerance  == FMul(expectedAmount, ToleranceFactor)
      amountDiff == FAbs(FSub(amountReceived, expectedAmount))
  IN  FGt(amountDiff, tolerance) /\ FGt(amountDiff, AbsoluteFloor)

\* lines 46-143: the checks on a fetched, successful transaction
verifyTransfers(tx, signature, expectedRecipient, expectedAmount) ==
  LET transfers == usdcTransfers(tx)
  IN  IF transfers = <<>> THEN Rejected(ErrNoTransfers, NoDetails)
      ELSE LET rt == recipientTransfer(tx, transfers, expectedRecipient)
           IN  IF rt = <<>> THEN Rejected(ErrRecipient, NoDetails)
               ELSE IF amountMismatch(rt[1].change, expectedAmount)
                    THEN Rejected(ErrAmount,
                           [kind |-> "amount", expected |-> expectedAmount,
                            received |-> rt[1].change])
                    ELSE Verified([kind |-> "verified",
                                   signature |-> signature,
                                   recipient |-> rt[1].owner,
                                   amount |-> rt[1].change])

\* verifySolanaTransaction without the test of tx.meta.err (lines 38-44)
verifyIgnoringStatus(fetched, signature, expectedRecipient, expectedAmount) ==
  IF fetched.kind = "error" THEN Rejected(ErrException, NoDetails)
  ELSE IF fetched.kind = "null" THEN Rejected(ErrNotFound, NoDetails)
  ELSE verifyTransfers(fetched, signature, expectedRecipient, expectedAmount)

\* lines 20-151; the fetched value is RpcError when getTransaction throws
verifySolanaTransaction(fetched, signature, expectedRecipient, expectedAmount) ==
  IF fetched.kind = "error" THEN Rejected(ErrException, NoDetails)
  ELSE IF fetched.kind = "null" THEN Rejected(ErrNotFound, NoDetails)
  ELSE IF fetched.err THEN Rejected(ErrTxFailed, NoDetails)
  ELSE verifyTransfers(fetched, signature, expectedRecipient, expectedAmount)

(***************************************************************************)
(* utils/jwt.js.  A string is a sequence of chunks: JSON.stringify yields  *)
(* one chunk <<key, value>> per member, base64UrlEncode wraps each chunk,  *)
(* base64UrlDecode unwraps it, and JSON.parse throws on a chunk that is no *)
(* member.  HMAC-SHA256 is an ideal MAC: the digest of (key, data) is the  *)
(* pair itself, so two digests are equal only for the same key and data.   *)
(***************************************************************************)
SECRET      == "process.env.JWT_SECRET"
AttackerKey == "some-other-key"

Header == [alg |-> "HS256", typ |-> "JWT"]
ClaimKeys == <<"contentId", "signature", "payerWallet", "type", "iat", "exp">>

Garbage == <<"garbage", 0>>

\* JSON.stringify of the claims, in the order the members were written
stringifyClaims(claims) ==
  << <<"contentId", claims.contentId>>, <<"signature", claims.signature>>,
     <<"payerWallet", claims.payerWallet>>, <<"type", claims.type>>,
     <<"iat", claims.iat>>, <<"exp", claims.exp>> >>

stringifyHeader(header) == << <<"alg", header.alg>>, <<"typ", header.typ>> >>

base64UrlEncode(str) == [i \in 1..Len(str) |-> [b64 |-> str[i]]]
base64UrlDecode(enc) == [i \in 1..Len(enc) |-> enc[i].b64]

\* JSON.parse: TRUE when it throws
parseThrows(str) ==
  \/ Len(str) # Len(ClaimKeys)
  \/ \E i \in 1..Len(str) : str[i][1] # ClaimKeys[i]

parseClaims(str) ==
  [contentId |-> str[1][2], signature |-> str[2][2], payerWallet |-> str[3][2],
   type |-> str[4][2], iat |-> str[5][2], exp |-> str[6][2]]

hmacDigest(key, data) == [alg |-> "sha256", key |-> key, data |-> data]

\* createSignature over the header alone
signHeaderOnly(data) == base64UrlEncode(<<hmacDigest(SECRET, <<data[1]>>)>>)

\* lines 89-93; data is <<encodedHeader, encodedPayload>>
createSignature(data) == base64UrlEncode(<<hmacDigest(SECRET, data)>>)

\* the expiration the verify route passes: 7 days
TokenTTL == 7 * 24 * 60 * 60

\* lines 19-40; a token is the sequence of its three dot-separated parts
generateAccessToken(payload, expiresIn, clock) ==
  LET claims == [contentId |-> payload.contentId, signature |-> payload.signature,
                 payerWallet |-> payload.payerWallet, type |-> payload.type,
                 iat |-> clock, exp |-> clock + expiresIn]
      encodedHeader  == base64UrlEncode(stringifyHeader(Header))
      encodedPayload == base64UrlEncode(stringifyClaims(claims))
  IN  << encodedHeader, encodedPayload,
         createSignature(<<encodedHeader, encodedPayload>>) >>

NoPayload == [valid |-> FALSE]

\* lines 47-82: the decoded payload, or NoPayload for null
verifyAccessToken(token, clock) ==
  IF Len(token) # 3 THEN NoPayload
  ELSE IF token[3] # createSignature(<<token[1], token[2]>>) THEN NoPayload
  ELSE IF parseThrows(base64UrlDecode(token[2])) THEN NoPayload
  ELSE LET payload == parseClaims(base64UrlDecode(token[2]))
       IN  IF payload.exp # 0 /\ payload.exp < clock THEN NoPayload
           ELSE [valid |-> TRUE] @@ payload

(***************************************************************************)
(* utils/jwt.js at the level of characters.  A text is a sequence of       *)
(* character codes; Buffer yields and takes sequences of bytes.            *)
(***************************************************************************)
\* the pieces of a sequence of texts, joined
RECURSIVE FlattenRange(_, _, _)
FlattenRange(pieces, lo, hi) ==
  IF lo > hi THEN <<>>
  ELSE IF lo = hi THEN pieces[lo]
  ELSE LET mid == (lo + hi) \div 2
       IN  FlattenRange(pieces, lo, mid) \o FlattenRange(pieces, mid + 1, hi)

Flatten(pieces) == FlattenRange(pieces, 1, Len(pieces))

\* Buffer.from(str): UTF-8, code points below 0x800
Utf8Encode(str) ==
  Flatten([i \in 1..Len(str) |->
             IF str[i] < 128 THEN <<str[i]>>
             ELSE <<192 + (str[i] \div 64), 128 + (str[i] % 64)>>])

\* buf.toString('utf8'); U+FFFD for a byte that starts no character
Utf8Decode(buf) ==
  LET Lead(i) == buf[i] >= 194 /\ buf[i] < 224
      Cont(i) == buf[i] >= 128 /\ buf[i] < 192
  IN  Flatten([i \in 1..Len(buf) |->
                 IF buf[i] < 128 THEN <<buf[i]>>
                 ELSE IF Lead(i) /\ i < Len(buf) /\ Cont(i + 1)
                      THEN <<(buf[i] - 192) * 64 + (buf[i + 1] - 128)>>
                 ELSE IF Cont(i) /\ i > 1 /\ Lead(i - 1) THEN <<>>
                 ELSE <<65533>>])

\* the base64 alphabet: A-Z a-z 0-9 + /
Base64Char(v) ==
  IF v < 26 THEN 65 + v
  ELSE IF v < 52 THEN 97 + (v - 26)
  ELSE IF v < 62 THEN 48 + (v - 52)
  ELSE IF v = 62 THEN 43 ELSE 47

\* the decoder takes '-' and '_' for '+' and '/' as well
Base64Chars == {Base64Char(v) : v \in 0..63} \cup {45, 95}
Base64Value(c) ==
  IF c >= 65 /\ c <= 90 THEN c - 65
  ELSE IF c >= 97 /\ c <= 122 THEN 26 + (c - 97)
  ELSE IF c >= 48 /\ c <= 57 THEN 52 + (c - 48)
  ELSE IF c \in {43, 45} THEN 62 ELSE 63

\* buf.toString('base64'): three bytes to four characters, '=' for the
\* bytes the last group lacks
ToBase64(buf) ==
  LET n    == Len(buf)
      B(j) == IF j <= n THEN buf[j] ELSE 0
  IN  [k \in 1..(4 * ((n + 2) \div 3)) |->
         LET g == 3 * ((k - 1) \div 4)
             p == (k - 1) % 4
         IN  IF p = 0 THEN Base64Char(B(g + 1) \div 4)
             ELSE IF p = 1
                  THEN Base64Char((B(g + 1) % 4) * 16 + (B(g + 2) \div 16))
             ELSE IF p = 2
                  THEN IF g + 2 > n THEN 61
                       ELSE Base64Char((B(g + 2) % 16) * 4 + (B(g + 3) \div 64))
             ELSE IF g + 3 > n THEN 61 ELSE Base64Char(B(g + 3) % 64)]

\* Buffer.from(text, 'base64'): the characters of the alphabet before the
\* first '=', four to three bytes
FromBase64(text) ==
  LET stops == {i \in 1..Len(text) : text[i] = 61}
      end   == IF stops = {} THEN Len(text) ELSE Min(stops) - 1
      v     == Flatten([i \in 1..end |->
                          IF text[i] \in Base64Chars
                          THEN <<Base64Value(text[i])>> ELSE <<>>])
      m     == Len(v)
      tail  == IF m % 4 = 2 THEN 1 ELSE IF m % 4 = 3 THEN 2 ELSE 0
  IN  [k \in 1..(3 * (m \div 4) + tail) |->
         LET g == 4 * ((k - 1) \div 3)
             p == (k - 1) % 3
         IN  IF p = 0 THEN v[g + 1] * 4 + (v[g + 2] \div 16)
             ELSE IF p = 1 THEN (v[g + 2] % 16) * 16 + (v[g + 3] \div 4)
             ELSE (v[g + 3] % 4) * 64 + v[g + 4]]

\* str.replace(/c/g, d) and str.replace(/c/g, '')
ReplaceAll(text, c, d) ==
  [i \in 1..Len(text) |-> IF text[i] = c THEN d ELSE text[i]]

RemoveAll(text, c) ==
  Flatten([i \in 1..Len(text) |-> IF text[i] = c THEN <<>> ELSE <<text[i]>>])

\* base64UrlEncode with '+' and '/' both written as '_'
base64UrlEncodeOneSymbol(str) ==
  RemoveAll(ReplaceAll(ReplaceAll(ToBase64(Utf8Encode(str)), 43, 95), 47, 95), 61)

\* lines 100-106, on characters: '+' to '-', '/' to '_', '=' dropped
base64UrlEncodeText(str) ==
  RemoveAll(ReplaceAll(ReplaceAll(ToBase64(Utf8Encode(str)), 43, 45), 47, 95), 61)

\* lines 113-120, on characters: back to '+' and '/', '=' added while the
\* length is no multiple of four
base64UrlDecodeText(str) ==
  LET base64 == ReplaceAll(ReplaceAll(str, 45, 43), 95, 47)
      padded == base64 \o [i \in 1..((4 - (Len(base64) % 4)) % 4) |-> 61]
  IN  Utf8Decode(FromBase64(padded))

\* JSON values of the claims: texts and numbers
JsonString(text) == [kind |-> "string", text |-> text, number |-> 0]
JsonNumber(n)    == [kind |-> "number", text |-> <<>>, number |-> n]

HexDigit(v) == IF v < 10 THEN 48 + v ELSE 97 + (v - 10)

\* the decimal digits of a natural number
RECURSIVE Digits(_)
Digits(n) == IF n < 10 THEN <<48 + n>> ELSE Digits(n \div 10) \o <<48 + (n % 10)>>

\* JSON.stringify of a string, without its opening quote: backslash
\* escapes, \n, \u00XX, the closing quote
Quote(str) ==
  Flatten([i \in 1..Len(str) |->
             IF str[i] = 34 THEN <<92, 34>>
             ELSE IF str[i] = 92 THEN <<92, 92>>
             ELSE IF str[i] = 10 THEN <<92, 110>>
             ELSE IF str[i] < 32
                  THEN <<92, 117, 48, 48, HexDigit(str[i] \div 16), HexDigit(str[i] % 16)>>
             ELSE <<str[i]>>]) \o <<34>>

\* JSON.stringify of an object given as its members <<key, value>> in
\* insertion order
RECURSIVE StringifyMembers(_, _)
StringifyMembers(members, i) ==
  IF i > Len(members) THEN <<125>>
  ELSE (IF i > 1 THEN <<44>> ELSE <<>>)
       \o <<34>> \o Quote(members[i][1]) \o <<58>>
       \o (IF members[i][2].kind = "string"
           THEN <<34>> \o Quote(members[i][2].text)
           ELSE Digits(members[i][2].number))
       \o StringifyMembers(members, i + 1)

JsonStringify(members) == <<123>> \o StringifyMembers(members, 1)

\* JSON.parse, for objects whose members are strings and natural numbers;
\* ok is FALSE where it throws
ParseFails == [ok |-> FALSE, value |-> JsonNumber(0), next |-> 0]

HexValue(c) ==
  IF c >= 48 /\ c <= 57 THEN c - 48
  ELSE IF c >= 97 /\ c <= 102 THEN c - 87
  ELSE IF c >= 65 /\ c <= 70 THEN c - 55
  ELSE 0 - 1

\* the character an escape stands for, -1 for none
Unescape(c) ==
  IF c \in {34, 92, 47} THEN c
  ELSE IF c = 98 THEN 8 ELSE IF c = 102 THEN 12 ELSE IF c = 110 THEN 10
  ELSE IF c = 114 THEN 13 ELSE IF c = 116 THEN 9 ELSE 0 - 1

\* the characters after an opening quote, up to the closing one
RECURSIVE ParseString(_, _, _)
ParseString(text, i, acc) ==
  IF i > Len(text) \/ text[i] < 32 THEN ParseFails
  ELSE IF text[i] = 34 THEN [ok |-> TRUE, value |-> JsonString(acc), next |-> i + 1]
  ELSE IF text[i] # 92 THEN ParseString(text, i + 1, Append(acc, text[i]))
  ELSE IF i + 1 > Len(text) THEN ParseFails
  ELSE IF text[i + 1] = 117
       THEN IF /\ i + 5 <= Len(text)
               /\ \A k \in 2..5 : HexValue(text[i + k]) >= 0
            THEN ParseString(text, i + 6,
                   Append(acc, HexValue(text[i + 2]) * 4096 + HexValue(text[i + 3]) * 256
                                 + HexValue(text[i + 4]) * 16 + HexValue(text[i + 5])))
            ELSE ParseFails
  ELSE IF Unescape(text[i + 1]) >= 0
       THEN ParseString(text, i + 2, Append(acc, Unescape(text[i + 1])))
  ELSE ParseFails

RECURSIVE ParseNumber(_, _, _)
ParseNumber(text, i, acc) ==
  IF i <= Len(text) /\ text[i] >= 48 /\ text[i] <= 57
  THEN ParseNumber(text, i + 1, acc * 10 + (text[i] - 48))
  ELSE [ok |-> TRUE, value |-> JsonNumber(acc), next |-> i]

ParseValue(text, i) ==
  IF i > Len(text) THEN ParseFails
  ELSE IF text[i] = 34 THEN ParseString(text, i + 1, <<>>)
  ELSE IF text[i] >= 49 /\ text[i] <= 57 THEN ParseNumber(text, i, 0)
  ELSE IF text[i] = 48 /\ ~(i < Len(text) /\ text[i + 1] >= 48 /\ text[i + 1] <= 57)
       THEN ParseNumber(text, i, 0)
  ELSE ParseFails

\* "key":value , ... }
RECURSIVE ParseMembers(_, _, _)
ParseMembers(text, i, acc) ==
  IF i > Len(text) \/ text[i] # 34 THEN [ok |-> FALSE, members |-> <<>>]
  ELSE LET key == ParseString(text, i + 1, <<>>)
       IN  IF ~key.ok \/ key.next > Len(text) \/ text[key.next] # 58
           THEN [ok |-> FALSE, members |-> <<>>]
           ELSE LET val == ParseValue(text, key.next + 1)
                    got == Append(acc, <<key.value.text, val.value>>)
                IN  IF ~val.ok \/ val.next > Len(text)
                    THEN [ok |-> FALSE, members |-> <<>>]
                    ELSE IF text[val.next] = 125
                         THEN [ok |-> val.next = Len(text), members |-> got]
                    ELSE IF text[val.next] = 44
                         THEN ParseMembers(text, val.next + 1, got)
                    ELSE [ok |-> FALSE, members |-> <<>>]

JsonParse(text) ==
  IF Len(text) < 2 \/ text[1] # 123 THEN [ok |-> FALSE, members |-> <<>>]
  ELSE IF text[2] = 125 THEN [ok |-> Len(text) = 2, members |-> <<>>]
  ELSE ParseMembers(text, 2, <<>>)

\* the texts the module writes
TextAlg == <<97, 108, 103>>            \* "alg"
TextHS256 == <<72, 83, 50, 53, 54>>   \* "HS256"
TextTyp == <<116, 121, 112>>            \* "typ"
TextJWT == <<74, 87, 84>>               \* "JWT"
TextIat == <<105, 97, 116>>            \* "iat"
TextExp == <<101, 120, 112>>            \* "exp"
SecretText == <<115, 51, 99>>          \* process.env.JWT_SECRET

\* { ...object, key: value }: the member replaced where it stands, else added
SetMember(members, key, value) ==
  IF \E i \in 1..Len(members) : members[i][1] = key
  THEN [i \in 1..Len(members) |->
          IF members[i][1] = key THEN <<key, value>> ELSE members[i]]
  ELSE Append(members, <<key, value>>)

\* object[key]: whether there is such a member, and the last one's value
HasMember(members, key) == \E i \in 1..Len(members) : members[i][1] = key

GetMember(members, key) ==
  LET at == {i \in 1..Len(members) : members[i][1] = key}
  IN  members[CHOOSE i \in at : \A j \in at : j <= i][2]

\* the sum of the codes of a text, each weighted by its place
RECURSIVE WeightedSum(_, _, _)
WeightedSum(text, lo, hi) ==
  IF lo > hi THEN 0
  ELSE IF lo = hi THEN (lo * text[lo]) % 65536
  ELSE LET mid == (lo + hi) \div 2
       IN  (WeightedSum(text, lo, mid) + WeightedSum(text, mid + 1, hi)) % 65536

\* crypto.createHmac(ALGORITHM, key).update(data).digest('base64'), with a
\* keyed checksum of three bytes standing for HMAC-SHA256: a function of key
\* and data, as the digest is, with none of its strength
hmacDigestText(key, data) ==
  LET keyed == key \o <<0>> \o data
      sum   == WeightedSum(keyed, 1, Len(keyed))
  IN  ToBase64(<<sum \div 256, sum % 256, (Len(key) + 7 * Len(data)) % 256>>)

\* lines 89-93
createSignatureText(data) == base64UrlEncodeText(hmacDigestText(SecretText, data))

\* lines 19-40 on characters; payload is an object given as its members
generateAccessTokenText(payload, expiresIn, clock) ==
  LET header == << <<TextAlg, JsonString(TextHS256)>>, <<TextTyp, JsonString(TextJWT)>> >>
      claims == SetMember(SetMember(payload, TextIat, JsonNumber(clock)),
                          TextExp, JsonNumber(clock + expiresIn))
      encodedHeader  == base64UrlEncodeText(JsonStringify(header))
      encodedPayload == base64UrlEncodeText(JsonStringify(claims))
      signature      == createSignatureText(encodedHeader \o <<46>> \o encodedPayload)
  IN  encodedHeader \o <<46>> \o encodedPayload \o <<46>> \o signature

\* text.split(sep): the texts between the separators
Split(text, sep) ==
  LET seps  == {i \in 1..Len(text) : text[i] = sep}
      At(k) == IF k = 0 THEN 0
               ELSE IF k > Cardinality(seps) THEN Len(text) + 1
               ELSE CHOOSE i \in seps : Cardinality({j \in seps : j < i}) = k - 1
  IN  [k \in 1..(Cardinality(seps) + 1) |-> SubSeq(text, At(k - 1) + 1, At(k) - 1)]

\* verifyAccessToken without the check of exp
verifyIgnoringExpiry(token, clock) ==
  LET parts == Split(token, 46)
  IN  IF token = <<>> \/ Len(parts) # 3 THEN [valid |-> FALSE, members |-> <<>>]
      ELSE IF parts[3] # createSignatureText(parts[1] \o <<46>> \o parts[2])
           THEN [valid |-> FALSE, members |-> <<>>]
      ELSE LET parsed == JsonParse(base64UrlDecodeText(parts[2]))
           IN  [valid |-> parsed.ok, members |-> parsed.members]

NoPayloadText == [valid |-> FALSE, members |-> <<>>]

\* lines 47-82 on characters
verifyAccessTokenText(token, clock) ==
  LET parts == Split(token, 46)
  IN  IF token = <<>> \/ Len(parts) # 3 THEN NoPayloadText
      ELSE IF parts[3] # createSignatureText(parts[1] \o <<46>> \o parts[2])
           THEN NoPayloadText
      ELSE LET parsed == JsonParse(base64UrlDecodeText(parts[2]))
           IN  IF ~parsed.ok THEN NoPayloadText
               ELSE IF /\ HasMember(parsed.members, TextExp)
                       /\ GetMember(parsed.members, TextExp).kind = "number"
                       /\ GetMember(parsed.members, TextExp).number # 0
                       /\ GetMember(parsed.members, TextExp).number < clock
                    THEN NoPayloadText
               ELSE [valid |-> TRUE, members |-> parsed.members]

(***************************************************************************)
(* State                                                                   *)
(***************************************************************************)
VARIABLES
  content,       \* table content: id -> <<row>>, or <<>> when there is no row
  payment_logs,  \* table payment_logs: a bag of rows
  ledger,        \* the blockchain: signature -> transaction, or NoTx
  nodeEnv,       \* process.env.NODE_ENV
  now,           \* Math.floor(Date.now() / 1000)
  vreq,          \* POST /api/payment/verify requests, one per slot
  greq,          \* GET /api/content/:id/download requests through the gate
  preq,          \* DatabaseManager.createPayment calls, one per slot
  treq,          \* a token of generateAccessToken and its verifyAccessToken calls
  ireq,          \* a POST /api/payment/initiate request
  dreq,          \* a DELETE /api/content/:id request
  qreq           \* a call of DatabaseManager.query

vars ==
  <<content, payment_logs, ledger, nodeEnv, now, vreq, greq, preq, treq, ireq,
    dreq, qreq>>

\* bounds of the model
MaxVerify == 2
MaxGate   == 1
MaxCreate == 2

VerifySlots == 1..MaxVerify
GateSlots   == 1..MaxGate
CreateSlots == 1..MaxCreate

\* content ids: two listings and a well-formed id of no listing
ContentA  == "content-a"
ContentB  == "content-b"
UnknownId == "content-x"
ListingIds == {ContentA, ContentB}
ContentIds == ListingIds \cup {UnknownId}

\* transaction signatures: prefix and body; base58 says the whole string is
\* 87 or 88 base58 characters
Sig(prefix, body, base58) == [prefix |-> prefix, body |-> body, base58 |-> base58]
SigPaid    == Sig("", "paid", TRUE)
SigFailed  == Sig("", "failed", TRUE)
SigMissing == Sig("", "missing", TRUE)
SigSim     == Sig("sim_", "1", FALSE)
SigBad     == Sig("", "short", FALSE)
NoSig      == Sig("", "", FALSE)
Sigs == {SigPaid, SigFailed, SigMissing, SigSim, SigBad}

\* a row of content: price_usdc in cents (DECIMAL(10, 2))
ContentRow(price, wallet, expires) ==
  [price_usdc |-> price, creator_wallet |-> wallet, payments |-> 0,
   views |-> 0, expires_at |-> expires]

\* a row of payment_logs; the id is AutoId when uuid_generate_v4() makes it
AutoId == "uuid_generate_v4()"
PaymentRow(id, contentId, payerWallet, amount, signature, status) ==
  [id |-> id, content_id |-> contentId, payer_wallet |-> payerWallet,
   amount_usdc |-> amount, transaction_signature |-> signature,
   payment_status |-> status]

\* a transfer of `amount` (10^-6 USDC) from the payer's to the creator's
\* token account
TransferTx(err, amount) ==
  Tx(err,
     << Balance(1, USDC_MINT_MAINNET, PayerWallet, 500000000),
        Balance(2, USDC_MINT_MAINNET, CreatorWallet, 0) >>,
     << Balance(1, USDC_MINT_MAINNET, PayerWallet, 500000000 - amount),
        Balance(2, USDC_MINT_MAINNET, CreatorWallet, amount) >>,
     {PayerWallet, CreatorWallet})

\* validation.js, lines 33-36 and 41-48
isValidUUID(id)            == id \in ContentIds
isValidSolanaAddress(addr) == addr \in {CreatorWallet, OtherWallet, PayerWallet}

\* validation.js, lines 209-248: 0 for next(), else the status sent
validatePaymentRequest(contentId, transactionSignature, payerWallet) ==
  IF contentId = Null \/ ~isValidUUID(contentId) THEN 400
  ELSE IF transactionSignature = NoSig THEN 400
  ELSE IF ~(transactionSignature.base58 \/ transactionSignature.prefix = "sim_") THEN 400
  ELSE IF payerWallet # Null /\ ~isValidSolanaAddress(payerWallet) THEN 400
  ELSE 0

NoToken == <<>>
NoVerification == [verified |-> FALSE, error |-> Null, details |-> NoDetails]

IdleVerify ==
  [pc |-> "idle", contentId |-> Null, transactionSignature |-> NoSig,
   payerWallet |-> Null, expectedAmount |-> 0, creatorWallet |-> Null,
   verification |-> NoVerification, status |-> 0, verified |-> FALSE,
   accessToken |-> NoToken, inserted |-> FALSE,
   fetches |-> 0, fetched |-> "none"]

IdleGate ==
  [pc |-> "idle", contentId |-> Null, paymentProof |-> NoToken,
   tokenPayload |-> NoPayload, checkedAt |-> 0,
   facilitator |-> [verified |-> FALSE],
   status |-> 0, next |-> FALSE, payment |-> FALSE]

\* content.expires_at && new Date(content.expires_at) < new Date(), at instant t
ListingExpired(contentId, t) ==
  /\ content[contentId] # <<>>
  /\ content[contentId][1].expires_at # <<>>
  /\ content[contentId][1].expires_at[1] < t

\* the payment a challenge asks for
Challenge(method, amount, currency, recipient) ==
  [method |-> method, amount |-> amount, currency |-> currency,
   recipient |-> recipient]

NoChallenge == Challenge(Null, Zero, Null, Null)

IdleInitiate ==
  [pc |-> "idle", contentId |-> Null, status |-> 0, payment |-> NoChallenge]

\* DELETE /api/content/:id before it arrives
IdleDelete ==
  [pc |-> "idle", id |-> Null, creatorWallet |-> Null, status |-> 0]

\* DatabaseManager.query before the call; retries is <<>> where the option
\* is left out; an error is named by the execution that threw it
\* a call of query not yet made; executions counts queryClient.query calls,
\* failures lists the errors they threw, delays the arguments of delay()
IdleQuery ==
  [pc |-> "idle", options |-> <<>>, retries |-> 0, useCache |-> FALSE,
   attempt |-> 0,
   executions |-> 0, failures |-> <<>>, delays |-> <<>>,
   lastError |-> "undefined", outcome |-> "none", returned |-> 0,
   thrown |-> "undefined"]

\* no token issued yet; expiresIn is <<>> where the argument is left out
IdleToken ==
  [pc |-> "idle", payload |-> <<>>, expiresIn |-> <<>>, issuedAt |-> 0,
   token |-> <<>>, checkedAt |-> 0, result |-> NoPayloadText]

(***************************************************************************)
(* routes/payment.js: POST /api/payment/verify.  Every await is a step.    *)
(***************************************************************************)
\* a response that reports every failure of the server as 402
RespondPaymentRequired(r, status) ==
  vreq' = [vreq EXCEPT ![r].pc = "done",
                       ![r].status = IF status = 500 THEN 402 ELSE status]

Respond(r, status) ==
  vreq' = [vreq EXCEPT ![r].pc = "done", ![r].status = status]

\* the request arrives; validatePaymentRequest and lines 113-119; slots are
\* taken in order
VerifyStart(r, contentId, transactionSignature, payerWallet) ==
  /\ vreq[r].pc = "idle"
  /\ \A q \in VerifySlots : q < r => vreq[q].pc # "idle"
  /\ LET held == [vreq[r] EXCEPT !.contentId = contentId,
                                 !.transactionSignature = transactionSignature,
                                 !.payerWallet = payerWallet]
         bad  == validatePaymentRequest(contentId, transactionSignature, payerWallet)
     IN  vreq' = [vreq EXCEPT ![r] =
                    IF bad # 0 THEN [held EXCEPT !.pc = "done", !.status = bad]
                    ELSE [held EXCEPT !.pc = "content"]]
  /\ UNCHANGED <<content, payment_logs, ledger, nodeEnv, now, greq, preq, treq, ireq, dreq, qreq>>

\* lines 121-135: SELECT price_usdc, creator_wallet FROM content
VerifyContent(r, dbOk) ==
  /\ vreq[r].pc = "content"
  /\ IF ~dbOk THEN Respond(r, 500)
     ELSE IF content[vreq[r].contentId] = <<>> THEN Respond(r, 404)
     ELSE LET row == content[vreq[r].contentId][1]
          IN  vreq' = [vreq EXCEPT
                 ![r].expectedAmount = row.price_usdc,
                 ![r].creatorWallet = row.creator_wallet,
                 ![r].pc = IF vreq[r].transactionSignature.prefix = "sim_"
                           THEN "insert" ELSE "ledger"]
  /\ UNCHANGED <<content, payment_logs, ledger, nodeEnv, now, greq, preq, treq, ireq, dreq, qreq>>

\* solana.js lines 25-28: the commitment the transaction is asked at
COMMITMENT == "confirmed"

\* connection.getTransaction(signature, {commitment}): null for a
\* transaction the cluster has not taken that far
getTransaction(signature, commitment) ==
  LET tx == ledger[signature]
  IN  IF tx.kind = "tx" /\ CommitmentRank(tx.commitment) < CommitmentRank(commitment)
      THEN NoTx ELSE tx

\* a route that keeps a row of payment_logs for the payments it refuses
VerifyLedgerRecording(r, rpcOk) ==
  /\ vreq[r].pc = "ledger"
  /\ LET fetched == IF rpcOk
                    THEN getTransaction(vreq[r].transactionSignature, COMMITMENT)
                    ELSE RpcError
         result  == verifySolanaTransaction(fetched, vreq[r].transactionSignature,
                      vreq[r].creatorWallet, parseFloat(vreq[r].expectedAmount, 2))
     IN  /\ vreq' = [vreq EXCEPT
               ![r].verification = result,
               ![r].fetches = @ + 1, ![r].fetched = fetched.kind,
               ![r].pc = IF result.verified THEN "insert" ELSE "done",
               ![r].status = IF result.verified THEN 0 ELSE 402]
         /\ payment_logs' =
              IF result.verified THEN payment_logs
              ELSE payment_logs (+) SetToBag({PaymentRow(AutoId, vreq[r].contentId,
                     vreq[r].payerWallet, vreq[r].expectedAmount,
                     vreq[r].transactionSignature, "failed")})
  /\ UNCHANGED <<content, ledger, nodeEnv, now, greq, preq, treq, ireq, dreq, qreq>>

\* a verifier that asks the ledger again when the fetch has thrown
VerifyLedgerRetrying(r, rpcOk) ==
  /\ vreq[r].pc = "ledger"
  /\ LET fetched == IF rpcOk
                    THEN getTransaction(vreq[r].transactionSignature, COMMITMENT)
                    ELSE RpcError
         result  == verifySolanaTransaction(fetched, vreq[r].transactionSignature,
                      vreq[r].creatorWallet, parseFloat(vreq[r].expectedAmount, 2))
     IN  vreq' = [vreq EXCEPT
            ![r].verification = result,
            ![r].fetches = @ + 1, ![r].fetched = fetched.kind,
            ![r].pc = IF result.verified THEN "insert"
                      ELSE IF fetched.kind = "error" /\ vreq[r].fetches = 0
                           THEN "ledger" ELSE "done",
            ![r].status = IF result.verified THEN 0 ELSE 402]
  /\ UNCHANGED <<content, payment_logs, ledger, nodeEnv, now, greq, preq, treq, ireq, dreq, qreq>>

\* lines 183-196: await verifySolanaTransaction(...), which fetches the
\* transaction once (solana.js 25-28); fetches counts the calls of
\* getTransaction and fetched keeps what the last one came to
VerifyLedger(r, rpcOk) ==
  /\ vreq[r].pc = "ledger"
  /\ LET fetched == IF rpcOk
                    THEN getTransaction(vreq[r].transactionSignature, COMMITMENT)
                    ELSE RpcError
         result  == verifySolanaTransaction(fetched, vreq[r].transactionSignature,
                      vreq[r].creatorWallet, parseFloat(vreq[r].expectedAmount, 2))
     IN  vreq' = [vreq EXCEPT
            ![r].verification = result,
            ![r].fetches = @ + 1, ![r].fetched = fetched.kind,
            ![r].pc = IF result.verified THEN "insert" ELSE "done",
            ![r].status = IF result.verified THEN 0 ELSE 402]
  /\ UNCHANGED <<content, payment_logs, ledger, nodeEnv, now, greq, preq, treq, ireq, dreq, qreq>>

\* INSERT INTO payment_logs: the foreign key wants the content row
InsertPayment(row) ==
  payment_logs' = payment_logs (+) SetToBag({row})

\* an update that writes the counter it read when no payment was there
UpdatePaymentCounterFromZero(id) ==
  content' = IF content[id] = <<>> THEN content
             ELSE [content EXCEPT ![id][1].payments = 1]

\* UPDATE content SET payments = payments + 1 WHERE id = $1
UpdatePaymentCounter(id) ==
  content' = IF content[id] = <<>> THEN content
             ELSE [content EXCEPT ![id][1].payments = @ + 1]

\* lines 142-146 and 200-204
VerifyInsert(r, dbOk) ==
  /\ vreq[r].pc = "insert"
  /\ IF dbOk /\ content[vreq[r].contentId] # <<>>
     THEN /\ InsertPayment(PaymentRow(AutoId, vreq[r].contentId,
                IF vreq[r].payerWallet = Null THEN "unknown" ELSE vreq[r].payerWallet,
                vreq[r].expectedAmount, vreq[r].transactionSignature, "completed"))
          /\ vreq' = [vreq EXCEPT ![r].pc = "update", ![r].inserted = TRUE]
     ELSE /\ Respond(r, 500)
          /\ UNCHANGED payment_logs
  /\ UNCHANGED <<content, ledger, nodeEnv, now, greq, preq, treq, ireq, dreq, qreq>>

\* lines 149-167 and 207-226: the counter, then the token and the response
VerifyUpdate(r, dbOk) ==
  /\ vreq[r].pc = "update"
  /\ IF dbOk
     THEN /\ UpdatePaymentCounter(vreq[r].contentId)
          /\ vreq' = [vreq EXCEPT
                ![r].pc = "done", ![r].status = 200, ![r].verified = TRUE,
                ![r].accessToken = generateAccessToken(
                   [contentId |-> vreq[r].contentId,
                    signature |-> vreq[r].transactionSignature,
                    payerWallet |-> IF vreq[r].payerWallet = Null THEN "unknown"
                                    ELSE vreq[r].payerWallet,
                    type |-> "payment"], TokenTTL, now)]
     ELSE /\ Respond(r, 500)
          /\ UNCHANGED content
  /\ UNCHANGED <<payment_logs, ledger, nodeEnv, now, greq, preq, treq, ireq, dreq, qreq>>

\* the bodies of res.json, by status: lines 116-118 (400), 128 (404),
\* 191-195 (402), 220-226 (200), 238-241 (500); verified is "absent" where
\* the body has no such member
ErrInternal == "Failed to verify payment"

VerifyResponse(v) ==
  [status |-> v.status,
   verified |-> IF v.status = 200 THEN "true"
                ELSE IF v.status = 402 THEN "false" ELSE "absent",
   error |-> IF v.status = 200 THEN Null
             ELSE IF v.status = 402 THEN v.verification.error
             ELSE IF v.status = 500 THEN ErrInternal
             ELSE IF v.status = 404 THEN "Content not found"
             ELSE "Content ID and transaction signature are required",
   accessToken |-> v.accessToken]

VerifyStep(r) ==
  \/ \E dbOk \in BOOLEAN : VerifyContent(r, dbOk)
  \/ \E rpcOk \in BOOLEAN : VerifyLedger(r, rpcOk)
  \/ \E dbOk \in BOOLEAN : VerifyInsert(r, dbOk)
  \/ \E dbOk \in BOOLEAN : VerifyUpdate(r, dbOk)

(***************************************************************************)
(* middleware/x402.js: x402PaymentGate, verifyX402Payment, logPayment      *)
(***************************************************************************)
\* a payment proof that is no access token
LegacyProof == << << [b64 |-> <<"x402-proof", 0>>] >> >>

\* what the facilitator's /verify answers; "error" is a failed call
FacilitatorError    == [kind |-> "error", verified |-> FALSE, signature |-> NoSig,
                        payerWallet |-> Null, amount |-> 0]
FacilitatorRefuses  == [FacilitatorError EXCEPT !.kind = "data"]
FacilitatorVerifies(signature, amount) ==
  [kind |-> "data", verified |-> TRUE, signature |-> signature,
   payerWallet |-> Null, amount |-> amount]

GateRespond(g, status) ==
  greq' = [greq EXCEPT ![g].pc = "done", ![g].status = status]

GateNext(g) ==
  greq' = [greq EXCEPT ![g].pc = "done", ![g].next = TRUE]

\* the request arrives with its x-payment-proof header or payment parameter
GateStart(g, contentId, paymentProof) ==
  /\ greq[g].pc = "idle"
  /\ \A q \in GateSlots : q < g => greq[q].pc # "idle"
  /\ greq' = [greq EXCEPT ![g].pc = "content", ![g].contentId = contentId,
                          ![g].paymentProof = paymentProof]
  /\ UNCHANGED <<content, payment_logs, ledger, nodeEnv, now, vreq, preq, treq, ireq, dreq, qreq>>

\* lines 113: the test on the verified token
tokenGrantsAccess(tokenPayload, contentId) ==
  /\ tokenPayload.valid
  /\ tokenPayload.contentId = contentId
  /\ tokenPayload.type = "payment"

\* a gate that counts a view of the listing when it asks for payment
GateContentCounting(g, dbOk) ==
  /\ greq[g].pc = "content"
  /\ IF ~dbOk THEN GateRespond(g, 500) /\ UNCHANGED content
     ELSE IF content[greq[g].contentId] = <<>>
          THEN GateRespond(g, 404) /\ UNCHANGED content
     ELSE IF ListingExpired(greq[g].contentId, now)
          THEN GateRespond(g, 410) /\ UNCHANGED content
     ELSE IF greq[g].paymentProof = NoToken
          THEN /\ GateRespond(g, 402)
               /\ content' = [content EXCEPT ![greq[g].contentId][1].views = @ + 1]
     ELSE LET tokenPayload == verifyAccessToken(greq[g].paymentProof, now)
          IN  /\ UNCHANGED content
              /\ IF tokenGrantsAccess(tokenPayload, greq[g].contentId)
                 THEN greq' = [greq EXCEPT ![g].pc = "done", ![g].next = TRUE,
                                           ![g].payment = TRUE,
                                           ![g].tokenPayload = tokenPayload,
                                           ![g].checkedAt = now]
                 ELSE greq' = [greq EXCEPT ![g].pc = "facilitator",
                                           ![g].tokenPayload = tokenPayload,
                                           ![g].checkedAt = now]
  /\ UNCHANGED <<payment_logs, ledger, nodeEnv, now, vreq, preq, treq, ireq, dreq, qreq>>

\* a gate that tests the access token before it looks the listing up
GateContentTokenFirst(g, dbOk) ==
  /\ greq[g].pc = "content"
  /\ LET tokenPayload == verifyAccessToken(greq[g].paymentProof, now)
     IN  IF ~dbOk THEN GateRespond(g, 500)
         ELSE IF /\ greq[g].paymentProof # NoToken
                 /\ tokenGrantsAccess(tokenPayload, greq[g].contentId)
              THEN greq' = [greq EXCEPT ![g].pc = "done", ![g].next = TRUE,
                                        ![g].payment = TRUE,
                                        ![g].tokenPayload = tokenPayload,
                                        ![g].checkedAt = now]
         ELSE IF content[greq[g].contentId] = <<>> THEN GateRespond(g, 404)
         ELSE IF ListingExpired(greq[g].contentId, now) THEN GateRespond(g, 410)
         ELSE IF greq[g].paymentProof = NoToken THEN GateRespond(g, 402)
         ELSE greq' = [greq EXCEPT ![g].pc = "facilitator",
                                   ![g].tokenPayload = tokenPayload,
                                   ![g].checkedAt = now]
  /\ UNCHANGED <<content, payment_logs, ledger, nodeEnv, now, vreq, preq, treq, ireq, dreq, qreq>>

\* lines 88-119 and 135: the content query and the access token
GateContent(g, dbOk) ==
  /\ greq[g].pc = "content"
  /\ IF ~dbOk THEN GateRespond(g, 500)
     ELSE IF content[greq[g].contentId] = <<>> THEN GateRespond(g, 404)
     ELSE IF /\ content[greq[g].contentId][1].expires_at # <<>>
             /\ content[greq[g].contentId][1].expires_at[1] < now
          THEN GateRespond(g, 410)
     ELSE IF greq[g].paymentProof = NoToken THEN GateRespond(g, 402)
     ELSE LET tokenPayload == verifyAccessToken(greq[g].paymentProof, now)
          IN  IF tokenGrantsAccess(tokenPayload, greq[g].contentId)
              THEN greq' = [greq EXCEPT ![g].pc = "done", ![g].next = TRUE,
                                        ![g].payment = TRUE,
                                        ![g].tokenPayload = tokenPayload,
                                        ![g].checkedAt = now]
              ELSE greq' = [greq EXCEPT ![g].pc = "facilitator",
                                        ![g].tokenPayload = tokenPayload,
                                        ![g].checkedAt = now]
  /\ UNCHANGED <<content, payment_logs, ledger, nodeEnv, now, vreq, preq, treq, ireq, dreq, qreq>>

\* a gate that answers 403 where verifyAccessToken returned null
GateFacilitatorTelling(g, answer) ==
  /\ greq[g].pc = "facilitator"
  /\ IF answer.kind = "data" /\ answer.verified
     THEN greq' = [greq EXCEPT ![g].pc = "logInsert", ![g].facilitator = answer]
     ELSE greq' = [greq EXCEPT ![g].pc = "done",
                               ![g].status = IF greq[g].tokenPayload.valid
                                             THEN 402 ELSE 403,
                               ![g].facilitator = answer]
  /\ UNCHANGED <<content, payment_logs, ledger, nodeEnv, now, vreq, preq, treq, ireq, dreq, qreq>>

\* lines 20-52 and 122-136: the legacy verification by the facilitator
GateFacilitator(g, answer) ==
  /\ greq[g].pc = "facilitator"
  /\ IF answer.kind = "data" /\ answer.verified
     THEN greq' = [greq EXCEPT ![g].pc = "logInsert", ![g].facilitator = answer]
     ELSE greq' = [greq EXCEPT ![g].pc = "done", ![g].status = 402,
                               ![g].facilitator = answer]
  /\ UNCHANGED <<content, payment_logs, ledger, nodeEnv, now, vreq, preq, treq, ireq, dreq, qreq>>

\* lines 57-69: logPayment's insert; its failure is caught and logged
GateLogInsert(g, dbOk) ==
  /\ greq[g].pc = "logInsert"
  /\ IF dbOk /\ content[greq[g].contentId] # <<>>
     THEN /\ InsertPayment(PaymentRow(AutoId, greq[g].contentId,
                IF greq[g].facilitator.payerWallet = Null THEN "unknown"
                ELSE greq[g].facilitator.payerWallet,
                greq[g].facilitator.amount, greq[g].facilitator.signature,
                "completed"))
          /\ greq' = [greq EXCEPT ![g].pc = "logUpdate"]
     ELSE /\ GateNext(g)
          /\ UNCHANGED payment_logs
  /\ UNCHANGED <<content, ledger, nodeEnv, now, vreq, preq, treq, ireq, dreq, qreq>>

\* lines 71-78: logPayment's counter update, then next()
GateLogUpdate(g, dbOk) ==
  /\ greq[g].pc = "logUpdate"
  /\ IF dbOk THEN UpdatePaymentCounter(greq[g].contentId) ELSE UNCHANGED content
  /\ GateNext(g)
  /\ UNCHANGED <<payment_logs, ledger, nodeEnv, now, vreq, preq, treq, ireq, dreq, qreq>>

FacilitatorAnswers ==
  {FacilitatorError, FacilitatorRefuses, FacilitatorVerifies(SigPaid, 100)}

GateStep(g) ==
  \/ \E dbOk \in BOOLEAN : GateContent(g, dbOk)
  \/ \E answer \in FacilitatorAnswers : GateFacilitator(g, answer)
  \/ \E dbOk \in BOOLEAN : GateLogInsert(g, dbOk)
  \/ \E dbOk \in BOOLEAN : GateLogUpdate(g, dbOk)

\* lines 136-157: the payment the 402 response of the gate asks for
GateChallenge(g) ==
  IF g.status # 402 THEN NoChallenge
  ELSE LET row == content[g.contentId][1]
       IN  Challenge("x402", parseFloat(row.price_usdc, 2), "USDC", row.creator_wallet)

\* what the client of the gate gets: the status and body of res.json, or
\* the content when next() was called
GateResponse(g) ==
  [status |-> g.status, content |-> g.next,
   error |-> IF g.status = 402 THEN "Payment Required"
             ELSE IF g.status = 404 THEN "Content not found"
             ELSE IF g.status = 410 THEN "Content has expired"
             ELSE IF g.status = 500 THEN "Payment processing error"
             ELSE Null,
   payment |-> GateChallenge(g)]

(***************************************************************************)
(* routes/payment.js: POST /api/payment/initiate                           *)
(***************************************************************************)
\* validation.js, lines 130-141: 0 for next(), else the status sent
validateContentId(id) == IF id = Null \/ ~isValidUUID(id) THEN 400 ELSE 0

\* req.params.id: the path '/initiate' has no :id
InitiateParamsId == Null

\* lines 16-105: validateContentId, then the handler; sessionOk is whether
\* the facilitator's /create-payment answered
Initiate(bodyContentId, dbOk, sessionOk) ==
  /\ ireq.pc = "idle"
  /\ LET contentId == IF bodyContentId # Null THEN bodyContentId
                      ELSE InitiateParamsId
         answer(status, payment) ==
           [pc |-> "done", contentId |-> bodyContentId, status |-> status,
            payment |-> payment]
     IN  ireq' =
           IF validateContentId(InitiateParamsId) # 0 THEN answer(400, NoChallenge)
           ELSE IF ~dbOk THEN answer(500, NoChallenge)
           ELSE IF content[contentId] = <<>> THEN answer(404, NoChallenge)
           ELSE IF ListingExpired(contentId, now) THEN answer(410, NoChallenge)
           ELSE answer(200,
                  Challenge(IF sessionOk THEN "session" ELSE "manual",
                            parseFloat(content[contentId][1].price_usdc, 2),
                            "USDC", content[contentId][1].creator_wallet))
  /\ UNCHANGED <<content, payment_logs, ledger, nodeEnv, now, vreq, greq, preq, treq, dreq, qreq>>

(***************************************************************************)
(* DELETE /api/content/:id, and DatabaseManager.cleanupExpired             *)
(***************************************************************************)
\* DELETE FROM content WHERE id in ids; payment_logs.content_id REFERENCES
\* content(id) ON DELETE CASCADE takes the rows of payment_logs with them
DeleteContentRows(ids) ==
  /\ content' = [id \in ContentIds |-> IF id \in ids THEN <<>> ELSE content[id]]
  /\ payment_logs' =
       [row \in {x \in BagToSet(payment_logs) : x.content_id \notin ids}
          |-> payment_logs[row]]

DeleteRespond(status) ==
  dreq' = [dreq EXCEPT !.pc = "done", !.status = status]

\* lines 205-212: validateContentId and the creatorWallet of the body
DeleteStart(id, creatorWallet) ==
  /\ dreq.pc = "idle"
  /\ LET held == [dreq EXCEPT !.id = id, !.creatorWallet = creatorWallet]
     IN  dreq' = IF validateContentId(id) # 0 \/ creatorWallet = Null
                 THEN [held EXCEPT !.pc = "done", !.status = 400]
                 ELSE [held EXCEPT !.pc = "lookup"]
  /\ UNCHANGED <<content, payment_logs, ledger, nodeEnv, now, vreq, greq, preq, treq, ireq, qreq>>

\* lines 214-240: the SELECT, the test of the creator, and the file unlinked
DeleteLookup(dbOk) ==
  /\ dreq.pc = "lookup"
  /\ IF ~dbOk THEN DeleteRespond(500)
     ELSE IF content[dreq.id] = <<>> THEN DeleteRespond(404)
     ELSE IF content[dreq.id][1].creator_wallet # dreq.creatorWallet
          THEN DeleteRespond(403)
     ELSE dreq' = [dreq EXCEPT !.pc = "delete"]
  /\ UNCHANGED <<content, payment_logs, ledger, nodeEnv, now, vreq, greq, preq, treq, ireq, qreq>>

\* lines 242-248: DELETE FROM content WHERE id = $1
DeleteRun(dbOk) ==
  /\ dreq.pc = "delete"
  /\ IF dbOk THEN DeleteContentRows({dreq.id}) /\ DeleteRespond(200)
     ELSE DeleteRespond(500) /\ UNCHANGED <<content, payment_logs>>
  /\ UNCHANGED <<ledger, nodeEnv, now, vreq, greq, preq, treq, ireq, qreq>>

DeleteStep ==
  \/ \E dbOk \in BOOLEAN : DeleteLookup(dbOk)
  \/ \E dbOk \in BOOLEAN : DeleteRun(dbOk)

\* part_006 lines 141-146 and 439-452: the sweep of the listings past their
\* expires_at
cleanupExpired ==
  /\ \E id \in ContentIds : ListingExpired(id, now)
  /\ DeleteContentRows({id \in ContentIds : ListingExpired(id, now)})
  /\ UNCHANGED <<ledger, nodeEnv, now, vreq, greq, preq, treq, ireq, dreq, qreq>>

(***************************************************************************)
(* DatabaseManager.query: the cache, then the loop of attempts             *)
(***************************************************************************)
\* part_006 line 182: retries = 2 where the option is left out
DefaultRetries == 2

\* the largest retries option tried
MaxRetries == 4

\* what a failing queryClient.query throws
QueryErrors == {"ECONNRESET", "deadlock detected"}

\* the loop test that lets one attempt more than the option allows
attemptAllowedOnceMore(attempt, retries) == attempt <= retries + 1

\* line 200: attempt <= retries, the test of the for loop
attemptAllowed(attempt, retries) == attempt <= retries

\* line 220: 100 * Math.pow(2, attempt)
backoff(attempt) == 100 * 2 ^ attempt

\* lines 177-197: the options, the cache looked up, and the loop entered;
\* retries is <<>> where the option is left out
QueryStart(retries, useCache, cached) ==
  /\ qreq.pc = "idle"
  /\ LET r    == IF retries = <<>> THEN DefaultRetries ELSE retries[1]
         held == [qreq EXCEPT !.options = retries, !.retries = r,
                              !.useCache = useCache]
     IN  qreq' = IF useCache /\ cached
                 THEN [held EXCEPT !.pc = "done", !.outcome = "cached"]
                 ELSE IF attemptAllowed(0, r)
                 THEN [held EXCEPT !.pc = "attempt"]
                 ELSE [held EXCEPT !.pc = "done", !.outcome = "throw",
                                   !.thrown = held.lastError]
  /\ UNCHANGED <<content, payment_logs, ledger, nodeEnv, now, vreq, greq, preq, treq, ireq, dreq>>

\* lines 200, 223-224: attempt++, the loop test, and the throw after the loop
QueryAdvance(q) ==
  IF attemptAllowed(q.attempt + 1, q.retries)
  THEN [q EXCEPT !.attempt = @ + 1, !.pc = "attempt"]
  ELSE [q EXCEPT !.attempt = @ + 1, !.pc = "done", !.outcome = "throw",
                 !.thrown = q.lastError]

\* lines 201-222: one attempt; result is "rows" or the error thrown
QueryAttempt(result) ==
  /\ qreq.pc = "attempt"
  /\ LET ran == [qreq EXCEPT !.executions = @ + 1]
     IN  qreq' =
           IF result = "rows"
           THEN [ran EXCEPT !.pc = "done", !.outcome = "result",
                            !.returned = ran.executions]
           ELSE LET caught == [ran EXCEPT !.lastError = result,
                                          !.failures = Append(@, result)]
                IN  IF caught.attempt < caught.retries
                    THEN [caught EXCEPT !.pc = "delay",
                                        !.delays = Append(@, backoff(caught.attempt))]
                    ELSE QueryAdvance(caught)
  /\ UNCHANGED <<content, payment_logs, ledger, nodeEnv, now, vreq, greq, preq, treq, ireq, dreq>>

\* lines 220 and 546-548: the timer of delay() fires and the loop goes on
QueryDelay ==
  /\ qreq.pc = "delay"
  /\ qreq' = QueryAdvance(qreq)
  /\ UNCHANGED <<content, payment_logs, ledger, nodeEnv, now, vreq, greq, preq, treq, ireq, dreq>>

QueryStep ==
  \/ \E result \in {"rows"} \cup QueryErrors : QueryAttempt(result)
  \/ QueryDelay

(***************************************************************************)
(* DatabaseManager.createPayment: the duplicate check, then a transaction  *)
(* that inserts the row and counts it.  query's retries are inside a step: *)
(* dbOk is what the statement comes to after them.  What the transaction   *)
(* wrote is seen by others from its COMMIT on.                             *)
(***************************************************************************)
NoPaymentData ==
  [id |-> Null, contentId |-> Null, payerWallet |-> Null, amountUsdc |-> 0,
   transactionSignature |-> NoSig, paymentStatus |-> Null]

NoRow == <<>>

IdleCreate ==
  [pc |-> "idle", paymentData |-> NoPaymentData, outcome |-> "none",
   returned |-> NoRow]

\* SELECT * FROM payment_logs WHERE transaction_signature = $1
getPaymentBySignature(signature) ==
  {row \in BagToSet(payment_logs) : row.transaction_signature = signature}

CreateReturn(p, outcome, returned) ==
  preq' = [preq EXCEPT ![p].pc = "done", ![p].outcome = outcome,
                       ![p].returned = returned]

\* the call; slots are taken in order
CreateStart(p, paymentData) ==
  /\ preq[p].pc = "idle"
  /\ \A q \in CreateSlots : q < p => preq[q].pc # "idle"
  /\ preq' = [preq EXCEPT ![p].pc = "check", ![p].paymentData = paymentData]
  /\ UNCHANGED <<content, payment_logs, ledger, nodeEnv, now, vreq, greq, treq, ireq, dreq, qreq>>

\* createPayment without regard for the rows the duplicate check finds
CreateUnchecked(p, dbOk) ==
  /\ preq[p].pc = "check"
  /\ IF ~dbOk THEN CreateReturn(p, "error", NoRow)
     ELSE preq' = [preq EXCEPT ![p].pc = "insert"]
  /\ UNCHANGED <<content, payment_logs, ledger, nodeEnv, now, vreq, greq, treq, ireq, dreq, qreq>>

\* lines 344-353: the duplicate check
CreateCheck(p, dbOk) ==
  /\ preq[p].pc = "check"
  /\ LET existing == getPaymentBySignature(preq[p].paymentData.transactionSignature)
     IN  IF ~dbOk THEN CreateReturn(p, "error", NoRow)
         ELSE IF existing # {}
              THEN \E row \in existing : CreateReturn(p, "existing", <<row>>)
              ELSE preq' = [preq EXCEPT ![p].pc = "insert"]
  /\ UNCHANGED <<content, payment_logs, ledger, nodeEnv, now, vreq, greq, treq, ireq, dreq, qreq>>

\* the row the transaction of slot p inserts
CreatedRow(p) ==
  PaymentRow(preq[p].paymentData.id, preq[p].paymentData.contentId,
             preq[p].paymentData.payerWallet, preq[p].paymentData.amountUsdc,
             preq[p].paymentData.transactionSignature,
             preq[p].paymentData.paymentStatus)

\* lines 356-369: BEGIN and the INSERT; it waits for a transaction that has
\* inserted the same primary key, and fails on a committed one
CreateInsert(p, dbOk) ==
  /\ preq[p].pc = "insert"
  /\ \A q \in CreateSlots \ {p} :
       preq[q].pc \in {"update", "commit"}
         => preq[q].paymentData.id # preq[p].paymentData.id
  /\ IF /\ dbOk
        /\ content[preq[p].paymentData.contentId] # <<>>
        /\ \A row \in BagToSet(payment_logs) : row.id # preq[p].paymentData.id
     THEN preq' = [preq EXCEPT ![p].pc = "update"]
     ELSE CreateReturn(p, "error", NoRow)
  /\ UNCHANGED <<content, payment_logs, ledger, nodeEnv, now, vreq, greq, treq, ireq, dreq, qreq>>

\* lines 372-376: the UPDATE of the counter; it waits for a transaction that
\* has updated the same content row
CreateUpdate(p, dbOk) ==
  /\ preq[p].pc = "update"
  /\ \A q \in CreateSlots \ {p} :
       preq[q].pc = "commit"
         => preq[q].paymentData.contentId # preq[p].paymentData.contentId
  /\ IF dbOk THEN preq' = [preq EXCEPT ![p].pc = "commit"]
     ELSE CreateReturn(p, "error", NoRow)
  /\ UNCHANGED <<content, payment_logs, ledger, nodeEnv, now, vreq, greq, treq, ireq, dreq, qreq>>

\* lines 378-383 and transaction's COMMIT or ROLLBACK
CreateCommit(p, dbOk) ==
  /\ preq[p].pc = "commit"
  /\ IF dbOk
     THEN /\ InsertPayment(CreatedRow(p))
          /\ UpdatePaymentCounter(preq[p].paymentData.contentId)
          /\ CreateReturn(p, "created", <<CreatedRow(p)>>)
     ELSE /\ CreateReturn(p, "error", NoRow)
          /\ UNCHANGED <<content, payment_logs>>
  /\ UNCHANGED <<ledger, nodeEnv, now, vreq, greq, treq, ireq, dreq, qreq>>

CreateStep(p) ==
  \/ \E dbOk \in BOOLEAN : CreateCheck(p, dbOk)
  \/ \E dbOk \in BOOLEAN : CreateInsert(p, dbOk)
  \/ \E dbOk \in BOOLEAN : CreateUpdate(p, dbOk)
  \/ \E dbOk \in BOOLEAN : CreateCommit(p, dbOk)

(***************************************************************************)
(* utils/jwt.js: a token issued and presented, on characters               *)
(***************************************************************************)
\* line 19: expiresIn = 7 * 24 * 60 * 60 when the argument is left out
DefaultExpiresIn == 7 * 24 * 60 * 60

\* generateAccessToken(payload, expiresIn) at the present instant
TokenIssue(payload, expiresIn) ==
  /\ treq.pc = "idle"
  /\ treq' = [treq EXCEPT
       !.pc = "issued", !.payload = payload, !.expiresIn = expiresIn,
       !.issuedAt = now,
       !.token = generateAccessTokenText(
                   payload,
                   IF expiresIn = <<>> THEN DefaultExpiresIn ELSE expiresIn[1],
                   now)]
  /\ UNCHANGED <<content, payment_logs, ledger, nodeEnv, now, vreq, greq, preq, ireq, dreq, qreq>>

\* verifyAccessToken(token) at the present instant
TokenCheck ==
  /\ treq.pc \in {"issued", "checked"}
  /\ treq' = [treq EXCEPT !.pc = "checked", !.checkedAt = now,
                          !.result = verifyAccessTokenText(treq.token, now)]
  /\ UNCHANGED <<content, payment_logs, ledger, nodeEnv, now, vreq, greq, preq, ireq, dreq, qreq>>

(***************************************************************************)
(* Specifications                                                          *)
(***************************************************************************)
MainContent ==
  [id \in ContentIds |->
     IF id \in ListingIds THEN <<ContentRow(100, CreatorWallet, <<>>)>> ELSE <<>>]

MainLedger ==
  [s \in Sigs |->
     IF s = SigPaid THEN TransferTx(FALSE, 1000000)
     ELSE IF s = SigFailed THEN TransferTx(TRUE, 1000000)
     ELSE NoTx]

\* the deployment under study runs with NODE_ENV=production
Production == "production"

InitRequests ==
  /\ vreq = [r \in VerifySlots |-> IdleVerify]
  /\ greq = [g \in GateSlots |-> IdleGate]
  /\ preq = [p \in CreateSlots |-> IdleCreate]
  /\ treq = IdleToken
  /\ ireq = IdleInitiate
  /\ dreq = IdleDelete
  /\ qreq = IdleQuery
  /\ now = 0

\* one verify request on a transaction drawn from VerifyInputs
\* (the prices in cents, the amounts in 10^-6 USDC)
VerifyPrices == {1, 2, 10, 100, 1000, 2000, 10000}
Micro(price) == price * 10000
Band(price)  == IF price * 10 > 10000 THEN price * 10 ELSE 10000
Offsets(price) ==
  {Micro(price) + d : d \in {0 - Band(price) - 1, 0 - Band(price), 1 - Band(price),
                             0, Band(price) - 1, Band(price), Band(price) + 1,
                             Micro(price) \div 10, Micro(price)}}
  \cup {1, (Micro(price) * 9) \div 10, ((Micro(price) * 9) \div 10) - 1}

DrawnTx(err, owner, mint, inKeys, pre, delta) ==
  Tx(err,
     << Balance(1, USDC_MINT_MAINNET, PayerWallet, 500000000) >>
       \o (IF pre = <<>> THEN <<>> ELSE << Balance(2, mint, owner, pre[1]) >>),
     << Balance(1, USDC_MINT_MAINNET, PayerWallet, 500000000 - delta),
        Balance(2, mint, owner, (IF pre = <<>> THEN 0 ELSE pre[1]) + delta) >>,
     IF inKeys THEN {PayerWallet, owner, CreatorWallet} ELSE {PayerWallet, owner})

AmountInputs ==
  UNION {{[price |-> x[1],
           tx |-> DrawnTx(FALSE, CreatorWallet, USDC_MINT_MAINNET, TRUE, x[2], d)] :
            d \in {o \in Offsets(x[1]) : o >= 1}} :
         x \in VerifyPrices \X {<<>>, <<0>>, <<250000>>}}

ShapeInputs ==
  {[price |-> 100, tx |-> DrawnTx(x[1], x[2], x[3], x[4], x[5], x[6])] :
     x \in BOOLEAN \X {CreatorWallet, OtherWallet}
           \X {USDC_MINT_MAINNET, OtherMint} \X BOOLEAN
           \X {<<>>, <<250000>>} \X {1000000, 500000}}

EmptyInputs ==
  {[price |-> 100, tx |-> x] :
     x \in {NoTx, Tx(FALSE, <<>>, <<>>, {CreatorWallet}), Tx(TRUE, <<>>, <<>>, {CreatorWallet})}}

VerifyInputs == AmountInputs \cup ShapeInputs \cup EmptyInputs

InitVerify ==
  /\ \E in \in VerifyInputs :
       /\ content = [MainContent EXCEPT ![ContentA][1].price_usdc = in.price]
       /\ ledger = [MainLedger EXCEPT ![SigPaid] = in.tx]
  /\ payment_logs = EmptyBag
  /\ nodeEnv = Production
  /\ InitRequests

NextVerify ==
  \/ VerifyStart(1, ContentA, SigPaid, PayerWallet)
  \/ VerifyStep(1)

SpecVerify == InitVerify /\ [][NextVerify]_vars

\* one verify request on a transaction of several token accounts.  An entry
\* is <<accountIndex, mint, owner, pre, post>>; pre or post is <<>> where the
\* account has no record on that side (created, or closed, by the
\* transaction), else <<amount>>
EntriesTx(err, entries, keys) ==
  LET pre  == SelectSeq(entries, LAMBDA e : e[4] # <<>>)
      post == SelectSeq(entries, LAMBDA e : e[5] # <<>>)
  IN  Tx(err,
         [i \in 1..Len(pre) |-> Balance(pre[i][1], pre[i][2], pre[i][3], pre[i][4][1])],
         [i \in 1..Len(post) |-> Balance(post[i][1], post[i][2], post[i][3], post[i][5][1])],
         keys)

EntryLists ==
  LET payer(idx, pre, post)    == <<idx, USDC_MINT_MAINNET, PayerWallet, pre, post>>
      creator(idx, pre, post)  == <<idx, USDC_MINT_MAINNET, CreatorWallet, pre, post>>
      other(idx, pre, post)    == <<idx, USDC_MINT_MAINNET, OtherWallet, pre, post>>
      foreign(idx, pre, post)  == <<idx, OtherMint, CreatorWallet, pre, post>>
  IN  { \* the creator's credit after another owner's
        << payer(1, <<5000000>>, <<3500000>>), other(2, <<0>>, <<500000>>),
           creator(3, <<0>>, <<1000000>>) >>,
        \* the creator's credit before another owner's
        << payer(1, <<5000000>>, <<3500000>>), creator(2, <<0>>, <<1000000>>),
           other(3, <<0>>, <<500000>>) >>,
        \* the creator pays; two other owners are credited
        << creator(1, <<5000000>>, <<3700000>>), other(2, <<0>>, <<300000>>),
           payer(3, <<0>>, <<1000000>>) >>,
        \* the creator pays the price to a token account made by the transaction
        << creator(1, <<5000000>>, <<4000000>>), other(2, <<>>, <<1000000>>) >>,
        \* the creator is debited and nobody is credited
        << creator(1, <<5000000>>, <<4000000>>) >>,
        \* two token accounts of the creator are credited
        << payer(1, <<5000000>>, <<3600000>>), creator(2, <<0>>, <<400000>>),
           creator(3, <<0>>, <<1000000>>) >>,
        \* only another owner is credited
        << other(1, <<0>>, <<1000000>>), payer(2, <<5000000>>, <<4000000>>) >>,
        \* the creator's account is untouched next to another owner's credit
        << creator(1, <<1000000>>, <<1000000>>), other(2, <<0>>, <<1000000>>),
           payer(3, <<5000000>>, <<4000000>>) >>,
        \* the payer's account is emptied and closed by the transaction
        << payer(1, <<1000000>>, <<>>) >>,
        << payer(1, <<1000000>>, <<>>), creator(2, <<0>>, <<1000000>>) >>,
        \* the creator's account is made by the transaction
        << payer(1, <<5000000>>, <<4000000>>), creator(2, <<>>, <<1000000>>) >>,
        \* the creator is credited in another token
        << payer(1, <<5000000>>, <<4000000>>), foreign(2, <<0>>, <<1000000>>) >>,
        << foreign(1, <<0>>, <<1000000>>) >>,
        \* no balance changes
        << payer(1, <<5000000>>, <<5000000>>), creator(2, <<1000000>>, <<1000000>>) >> }

TransferInputs ==
  {EntriesTx(FALSE, x[1], x[2]) :
     x \in EntryLists \X {{PayerWallet, OtherWallet},
                          {PayerWallet, OtherWallet, CreatorWallet}}}

InitTransfers ==
  /\ content = MainContent
  /\ \E tx \in TransferInputs : ledger = [MainLedger EXCEPT ![SigPaid] = tx]
  /\ payment_logs = EmptyBag
  /\ nodeEnv = Production
  /\ InitRequests

SpecTransfers == InitTransfers /\ [][NextVerify]_vars

\* the server: concurrent verify requests and gated downloads
MainSigs == {SigPaid, SigFailed, SigSim}

Init ==
  /\ content = MainContent
  /\ ledger = MainLedger
  /\ payment_logs = EmptyBag
  /\ nodeEnv = Production
  /\ InitRequests

Next ==
  \/ \E r \in VerifySlots, c \in ListingIds, s \in MainSigs :
       VerifyStart(r, c, s, PayerWallet)
  \/ \E r \in VerifySlots : VerifyStep(r)
  \/ \E g \in GateSlots, c \in ListingIds, proof \in {NoToken, LegacyProof} :
       GateStart(g, c, proof)
  \/ \E g \in GateSlots : GateStep(g)

Spec == Init /\ [][Next]_vars

\* one download request with any credential a client can put together: the
\* tokens issued so far, each with one character of its payload segment
\* changed, tokens signed with another key; and time passing
\* the instants looked at: the start, and the seconds around the expiry of a
\* token issued at the start
MaxSkew == 1
Instants == {0} \cup {TokenTTL + d : d \in (0 - MaxSkew)..MaxSkew}

\* time passes until instant t
Tick(t) ==
  /\ t > now
  /\ now' = t
  /\ UNCHANGED <<content, payment_logs, ledger, nodeEnv, vreq, greq, preq, treq, ireq, dreq, qreq>>

\* other values a member of the claims can be changed to
AltValues(member) ==
  IF member[1] = "contentId" THEN ListingIds \ {member[2]}
  ELSE IF member[1] = "signature" THEN {SigPaid, SigSim} \ {member[2]}
  ELSE IF member[1] = "payerWallet" THEN {OtherWallet}
  ELSE IF member[1] = "type" THEN {"admin"}
  ELSE IF member[1] = "iat" THEN {member[2] + 1}
  ELSE {0, member[2] + TokenTTL}

\* the token with element i of its payload segment replaced
ReplaceChunk(token, i, chunk) ==
  <<token[1], [token[2] EXCEPT ![i] = chunk], token[3]>>

\* the token with element i of its payload segment changed to a dot
SplitAt(token, i) ==
  <<token[1], SubSeq(token[2], 1, i - 1),
    SubSeq(token[2], i + 1, Len(token[2])), token[3]>>

\* every token that differs from `token` in one place of the payload segment
Tampers(token) ==
  UNION {{ReplaceChunk(token, i, [b64 |-> <<token[2][i].b64[1], v>>]) :
            v \in AltValues(token[2][i].b64)}
         \cup {ReplaceChunk(token, i, [b64 |-> Garbage]), SplitAt(token, i)} :
         i \in 1..Len(token[2])}

\* a token for the listing made by someone who does not hold SECRET
Forged(contentId) ==
  LET encodedHeader  == base64UrlEncode(stringifyHeader(Header))
      encodedPayload == base64UrlEncode(stringifyClaims(
                          [contentId |-> contentId, signature |-> SigPaid,
                           payerWallet |-> PayerWallet, type |-> "payment",
                           iat |-> 0, exp |-> 0]))
  IN  <<encodedHeader, encodedPayload,
        base64UrlEncode(
          <<hmacDigest(AttackerKey, <<encodedHeader, encodedPayload>>)>>)>>

Issued == {vreq[r].accessToken : r \in VerifySlots} \ {NoToken}

\* a token with the server's signature and another type than 'payment'
OtherType(contentId) ==
  generateAccessToken([contentId |-> contentId, signature |-> SigPaid,
                       payerWallet |-> PayerWallet, type |-> "admin"],
                      TokenTTL, 0)

Presentable(contentId) ==
  {NoToken, LegacyProof, Forged(contentId), OtherType(contentId)} \cup Issued
    \cup UNION {Tampers(token) : token \in Issued}

NextGate ==
  \/ VerifyStart(1, ContentA, SigPaid, PayerWallet)
  \/ VerifyStep(1)
  \/ \E c \in ListingIds : \E proof \in Presentable(c) : GateStart(1, c, proof)
  \/ GateStep(1)
  \/ \E t \in Instants : Tick(t)

SpecGate == Init /\ [][NextGate]_vars

\* listings with and without expires_at; time passes the expiry
ListingExpiry == TokenTTL

ExpiringContent ==
  [id \in ContentIds |->
     IF id = ContentA THEN <<ContentRow(100, CreatorWallet, <<>>)>>
     ELSE IF id = ContentB THEN <<ContentRow(100, CreatorWallet, <<ListingExpiry>>)>>
     ELSE <<>>]

InitListing ==
  /\ content = ExpiringContent
  /\ ledger = MainLedger
  /\ payment_logs = EmptyBag
  /\ nodeEnv = Production
  /\ InitRequests

NextListing ==
  \/ \E c \in ContentIds : VerifyStart(1, c, SigPaid, PayerWallet)
  \/ VerifyStep(1)
  \/ \E c \in ContentIds, dbOk \in BOOLEAN, sessionOk \in BOOLEAN :
       Initiate(c, dbOk, sessionOk)
  \/ \E c \in ContentIds, proof \in {NoToken, LegacyProof} : GateStart(1, c, proof)
  \/ GateStep(1)
  \/ \E t \in Instants : Tick(t)

SpecListing == InitListing /\ [][NextListing]_vars

\* verify requests in flight together, each with a paid transaction of its
\* own or with the other's; storage and the RPC node answer
SigPaidToo == Sig("", "paid-too", TRUE)

InitConcurrent ==
  /\ content = MainContent
  /\ ledger = [s \in Sigs \cup {SigPaidToo} |->
                 IF s \in {SigPaid, SigPaidToo} THEN TransferTx(FALSE, 1000000)
                 ELSE NoTx]
  /\ payment_logs = EmptyBag
  /\ nodeEnv = Production
  /\ InitRequests

ConcurrentStep(r) ==
  \/ VerifyContent(r, TRUE)
  \/ VerifyLedger(r, TRUE)
  \/ VerifyInsert(r, TRUE)
  \/ VerifyUpdate(r, TRUE)

NextConcurrent ==
  \/ \E r \in VerifySlots, c \in ListingIds, s \in {SigPaid, SigPaidToo} :
       VerifyStart(r, c, s, PayerWallet)
  \/ \E r \in VerifySlots : ConcurrentStep(r)

SpecConcurrent == InitConcurrent /\ [][NextConcurrent]_vars

\* the life of a listing: payments verified and refused, downloads, the
\* creator's DELETE and the sweep of expired listings.  ContentB is the
\* listing that is downloaded, deleted and swept; the transaction under
\* SigMissing is one of those the verifier refuses.
RefusedTransactions ==
  {NoTx,
   TransferTx(TRUE, 1000000),
   Tx(FALSE, <<>>, <<>>, {PayerWallet, CreatorWallet}),
   DrawnTx(FALSE, OtherWallet, USDC_MINT_MAINNET, FALSE, <<>>, 1000000),
   TransferTx(FALSE, 500000)}

InitLifecycle ==
  /\ content = ExpiringContent
  /\ \E tx \in RefusedTransactions : ledger = [MainLedger EXCEPT ![SigMissing] = tx]
  /\ payment_logs = EmptyBag
  /\ nodeEnv = Production
  /\ InitRequests

NextLifecycle ==
  \/ \E c \in ListingIds, s \in {SigPaid, SigMissing} :
       VerifyStart(1, c, s, PayerWallet)
  \/ VerifyStep(1)
  \/ \E proof \in {NoToken, LegacyProof} \cup Issued :
       GateStart(1, ContentB, proof)
  \/ GateStep(1)
  \/ \E w \in {CreatorWallet, OtherWallet} : DeleteStart(ContentB, w)
  \/ DeleteStep
  \/ cleanupExpired
  \/ Tick(ListingExpiry + 1)

SpecLifecycle == InitLifecycle /\ [][NextLifecycle]_vars

\* claims objects given to generateAccessToken: texts of every length modulo
\* three, with characters JSON escapes, characters whose base64 holds '+' and
\* '/', and one beyond ASCII
TextContentId == <<99, 111, 110, 116, 101, 110, 116, 73, 100>>
TextSignature == <<115, 105, 103, 110, 97, 116, 117, 114, 101>>
TextPayerWallet == <<112, 97, 121, 101, 114, 87, 97, 108, 108, 101, 116>>
TextType == <<116, 121, 112, 101>>
TextPayment == <<112, 97, 121, 109, 101, 110, 116>>

ContentIdTexts == {<<56, 102, 49, 52, 101, 52, 53, 102, 45, 99, 101, 101, 97>>,
                   <<>>}
SignatureTexts == {<<53, 81, 52, 103, 88, 113>>,
                   <<115, 105, 109, 95, 34, 92, 10, 1>>}
PayerWalletTexts == {<<117, 110, 107, 110, 111, 119, 110>>,
                     <<126, 126, 126, 62, 63, 63, 63, 233>>}

TokenPayloads ==
  {<< <<TextContentId, JsonString(c)>>, <<TextSignature, JsonString(s)>>,
      <<TextPayerWallet, JsonString(w)>>, <<TextType, JsonString(TextPayment)>> >> :
     c \in ContentIdTexts, s \in SignatureTexts, w \in PayerWalletTexts}

\* the expiresIn arguments: left out, one second, one minute
ExpiresIns == {<<>>, <<1>>, <<60>>}

\* the instants around each expiry of a token issued at 0 or at 1
TokenInstants ==
  {0, 1} \cup {t + e + d : t \in {0, 1}, e \in {1, 60, DefaultExpiresIn},
                          d \in (0 - MaxSkew)..MaxSkew}

NextToken ==
  \/ \E payload \in TokenPayloads, expiresIn \in ExpiresIns :
       TokenIssue(payload, expiresIn)
  \/ TokenCheck
  \/ \E t \in TokenInstants : Tick(t)

SpecToken == Init /\ [][NextToken]_vars

\* one call of DatabaseManager.query, with and without the retries option
RetriesOptions == {<<>>} \cup {<<r>> : r \in 0..MaxRetries}

NextQuery ==
  \/ \E retries \in RetriesOptions, useCache \in BOOLEAN, cached \in BOOLEAN :
       QueryStart(retries, useCache, cached)
  \/ QueryStep

SpecQuery == Init /\ [][NextQuery]_vars

\* the statement settles and the timer fires: the promise awaited is resolved
\* or rejected by the driver, and setTimeout calls back
SpecQueryFair == SpecQuery /\ WF_vars(QueryStep)

\* the cluster at work on the block of a paid transaction: votes confirm it,
\* rooting finalizes it, and until then a fork without it can win
PendingLedger ==
  [s \in Sigs |->
     IF s = SigPaid
     THEN [TransferTx(FALSE, 1000000) EXCEPT !.commitment = "processed"]
     ELSE NoTx]

InitReorg ==
  /\ content = MainContent
  /\ ledger = PendingLedger
  /\ payment_logs = EmptyBag
  /\ nodeEnv = Production
  /\ InitRequests

LedgerAdvance(s) ==
  /\ ledger[s].kind = "tx" /\ ledger[s].commitment # "finalized"
  /\ ledger' = [ledger EXCEPT ![s].commitment =
                  IF @ = "processed" THEN "confirmed" ELSE "finalized"]
  /\ UNCHANGED <<content, payment_logs, nodeEnv, now, vreq, greq, preq, treq, ireq, dreq, qreq>>

LedgerReorganize(s) ==
  /\ ledger[s].kind = "tx" /\ ledger[s].commitment # "finalized"
  /\ ledger' = [ledger EXCEPT ![s] = NoTx]
  /\ UNCHANGED <<content, payment_logs, nodeEnv, now, vreq, greq, preq, treq, ireq, dreq, qreq>>

NextReorg ==
  \/ \E r \in VerifySlots, c \in ListingIds : VerifyStart(r, c, SigPaid, PayerWallet)
  \/ \E r \in VerifySlots : VerifyStep(r)
  \/ \E s \in Sigs : LedgerAdvance(s)
  \/ \E s \in Sigs : LedgerReorganize(s)

SpecReorg == InitReorg /\ [][NextReorg]_vars

\* callers of DatabaseManager.createPayment
PaymentInputs ==
  {[id |-> x[1], contentId |-> x[2], payerWallet |-> PayerWallet,
    amountUsdc |-> 100, transactionSignature |-> x[3],
    paymentStatus |-> "completed"] :
     x \in {"payment-1", "payment-2"} \X ListingIds \X {SigPaid, SigFailed}}

NextLedger ==
  \/ \E p \in CreateSlots, paymentData \in PaymentInputs :
       CreateStart(p, paymentData)
  \/ \E p \in CreateSlots : CreateStep(p)

SpecLedger == Init /\ [][NextLedger]_vars

\* calls of createPayment one after another
NoCallInFlight == \A p \in CreateSlots : preq[p].pc \in {"idle", "done"}

NextLedgerSequential ==
  \/ \E p \in CreateSlots, paymentData \in PaymentInputs :
       NoCallInFlight /\ CreateStart(p, paymentData)
  \/ \E p \in CreateSlots : CreateStep(p)

SpecLedgerSequential == Init /\ [][NextLedgerSequential]_vars

\* one client that sends its next verify request after the answer to the
\* last one
NoRequestInFlight == \A r \in VerifySlots : vreq[r].pc \in {"idle", "done"}

NextSequential ==
  \/ \E r \in VerifySlots, c \in ListingIds, s \in MainSigs :
       NoRequestInFlight /\ VerifyStart(r, c, s, PayerWallet)
  \/ \E r \in VerifySlots : VerifyStep(r)

SpecSequential == Init /\ [][NextSequential]_vars

(***************************************************************************)
(* Properties.  Amounts are compared here in exact integer arithmetic, in  *)
(* units of 10^-6 USDC.                                                    *)
(***************************************************************************)
\* SELECT ... FROM payment_logs WHERE transaction_signature = s: the rows
RECURSIVE CountRows(_, _)
CountRows(rows, bag) ==
  IF rows = {} THEN 0
  ELSE LET row == CHOOSE x \in rows : TRUE
       IN  CopiesIn(row, bag) + CountRows(rows \ {row}, bag)

RowsWithSignature(s) ==
  CountRows({row \in BagToSet(payment_logs) : row.transaction_signature = s},
            payment_logs)

\* the exact balance change of entry i of postTokenBalances
ExactChange(tx, i) ==
  LET found == {j \in 1..Len(tx.preTokenBalances) :
                  tx.preTokenBalances[j].accountIndex
                    = tx.postTokenBalances[i].accountIndex}
  IN  tx.postTokenBalances[i].amount
        - (IF found = {} THEN 0 ELSE tx.preTokenBalances[Min(found)].amount)

\* the exact amount credited to the candidate transfer, 0 when there is none
Credited(tx, recipient) ==
  LET credits == {i \in 1..Len(tx.postTokenBalances) :
                    /\ tx.postTokenBalances[i].mint = USDC_MINT_MAINNET
                    /\ ExactChange(tx, i) > 0}
      owned   == {i \in credits : tx.postTokenBalances[i].owner = recipient}
  IN  IF owned # {} THEN ExactChange(tx, Min(owned))
      ELSE IF recipient \in tx.accountKeys /\ credits # {}
           THEN ExactChange(tx, Min(credits))
           ELSE 0

Abs(n) == IF n < 0 THEN 0 - n ELSE n

\* the amount check has judged request r
AmountJudged(r) ==
  vreq[r].verification.verified \/ vreq[r].verification.error = ErrAmount

\* C4: a transaction whose status is a failure is never verified, whatever
\* its balance deltas: once the ledger has answered, the verdict is
\* "Transaction failed on blockchain", and the request leaves no
\* payment_logs row and no access token.
C4_FailedTransactionRejected ==
  \A r \in VerifySlots :
    LET v  == vreq[r]
        tx == ledger[v.transactionSignature]
    IN  (v.pc # "idle" /\ tx.kind = "tx" /\ tx.err) =>
          /\ ~v.verification.verified
          /\ v.verification.error \in {Null, ErrException, ErrTxFailed}
          /\ (v.pc = "done" /\ v.status = 402 /\ v.verification.error # ErrException
                => v.verification.error = ErrTxFailed)
          /\ ~v.inserted /\ ~v.verified /\ v.accessToken = NoToken
          /\ RowsWithSignature(v.transactionSignature) = 0

\* C4 witness: a failed transaction that credits the creator exactly the
\* price was answered 402 with the failure verdict
C4_Witness ==
  \E r \in VerifySlots :
    LET v  == vreq[r]
        tx == ledger[v.transactionSignature]
    IN  /\ v.pc = "done" /\ v.status = 402
        /\ tx.kind = "tx" /\ tx.err
        /\ Credited(tx, v.creatorWallet) = Micro(v.expectedAmount)
        /\ v.verification.error = ErrTxFailed

\* C9: the amount check accepts the candidate credit exactly when
\* |received - price| <= max(price * 0.1%, 0.01)
C9_AmountCheckIsTheBand ==
  \A r \in VerifySlots :
    LET v == vreq[r]
    IN  AmountJudged(r) =>
          (v.verification.verified
             <=> Abs(Credited(ledger[v.transactionSignature], v.creatorWallet)
                       - Micro(v.expectedAmount)) <= Band(v.expectedAmount))

\* C10: no accepted credit is below 90% of the price
C10_NoAcceptedCreditBelowNinetyPercent ==
  \A r \in VerifySlots :
    LET v == vreq[r]
    IN  v.verification.verified =>
          Credited(ledger[v.transactionSignature], v.creatorWallet) * 10
            >= Micro(v.expectedAmount) * 9

\* requests q and r name the same on-chain signature and the same listing
SameSubmission(q, r) ==
  /\ q # r
  /\ vreq[q].transactionSignature.prefix # "sim_"
  /\ vreq[q].pc # "idle" /\ vreq[r].pc # "idle"
  /\ vreq[q].transactionSignature = vreq[r].transactionSignature
  /\ vreq[q].contentId = vreq[r].contentId

\* C1: once a verify request has succeeded, a later request with the same
\* signature for the same listing adds no payment_logs row and no
\* increment: one row for the signature, payments = 1.
C1_SecondSubmissionAddsNothing ==
  \A q, r \in VerifySlots :
    (SameSubmission(q, r) /\ vreq[q].pc = "done" /\ vreq[q].verified) =>
      /\ RowsWithSignature(vreq[q].transactionSignature) <= 1
      /\ content[vreq[q].contentId][1].payments <= 1

\* C2: two verify requests in flight at once for the same signature never
\* both insert their row.
C2_RacingRequestsNeverBothInsert ==
  \A q, r \in VerifySlots :
    (SameSubmission(q, r) /\ vreq[q].pc # "done" /\ vreq[r].pc # "done") =>
      ~(vreq[q].inserted /\ vreq[r].inserted)

\* the same for DatabaseManager.createPayment: two calls with one signature
\* never both create a row
CreatePaymentNeverBothCreate ==
  \A p, q \in CreateSlots :
    (/\ p # q
     /\ preq[p].paymentData.transactionSignature
          = preq[q].paymentData.transactionSignature)
      => ~(preq[p].outcome = "created" /\ preq[q].outcome = "created")

\* C3: one on-chain signature never yields payment_logs rows, or access
\* tokens, for two different listings.
C3_OneSignatureOneListing ==
  \A s \in {x \in Sigs : x.prefix # "sim_"} :
    /\ Cardinality({row.content_id : row \in
         {x \in BagToSet(payment_logs) : x.transaction_signature = s}}) <= 1
    /\ Cardinality({vreq[r].contentId : r \in
         {x \in VerifySlots : /\ vreq[x].accessToken # NoToken
                              /\ vreq[x].transactionSignature = s}}) <= 1

\* C5: in production a request whose signature starts with sim_ leaves no
\* payment_logs row, no increment and no access token.
C5_ProductionRefusesSimulated ==
  nodeEnv = Production =>
    /\ \A r \in VerifySlots :
         vreq[r].transactionSignature.prefix = "sim_" =>
           ~vreq[r].inserted /\ ~vreq[r].verified /\ vreq[r].accessToken = NoToken
    /\ \A row \in BagToSet(payment_logs) : row.transaction_signature.prefix # "sim_"

\* C7: the gate calls next() only for a request whose credential
\* verifyAccessToken accepted.
C7_NextOnlyAfterValidate ==
  \A g \in GateSlots : greq[g].next => greq[g].tokenPayload.valid

\* C6: the gate takes a credential as valid (sets req.payment) only if its
\* signature is the server's, its type is "payment", its exp is strictly
\* after the instant of the check, and its contentId is the requested one.
C6_ValidOnlyIfAllFourHold ==
  \A g \in GateSlots :
    greq[g].payment =>
      LET token  == greq[g].paymentProof
          claims == parseClaims(base64UrlDecode(token[2]))
      IN  /\ Len(token) = 3
          /\ token[3]
               = base64UrlEncode(<<hmacDigest(SECRET, <<token[1], token[2]>>)>>)
          /\ claims.type = "payment"
          /\ claims.exp > greq[g].checkedAt
          /\ claims.contentId = greq[g].contentId

\* C8: a token that differs from an issued token in one place of its
\* payload segment yields no claims from verifyAccessToken, at any instant,
\* and the gate never takes it as a valid credential.
C8_TamperedPayloadRejected ==
  /\ \A token \in Issued : \A x \in Tampers(token) : \A t \in Instants :
       verifyAccessToken(x, t) = NoPayload
  /\ \A g \in GateSlots :
       (\E token \in Issued : greq[g].paymentProof \in Tampers(token)) =>
         ~greq[g].payment /\ ~greq[g].tokenPayload.valid

\* C8 witness: the gate was shown an issued token whose contentId had been
\* changed to the requested listing, and did not take it
C8_Witness ==
  \E g \in GateSlots : \E token \in Issued :
    /\ greq[g].paymentProof \in Tampers(token)
    /\ Len(greq[g].paymentProof) = 3
    /\ ~parseThrows(base64UrlDecode(greq[g].paymentProof[2]))
    /\ parseClaims(base64UrlDecode(greq[g].paymentProof[2])).contentId
         = greq[g].contentId
    /\ parseClaims(base64UrlDecode(token[2])).contentId # greq[g].contentId
    /\ greq[g].pc \notin {"idle", "content"}
    /\ greq[g].status # 500
    /\ ~greq[g].payment

\* the USDC credits of a transaction, as indices of postTokenBalances
UsdcCredits(tx) ==
  {i \in 1..Len(tx.postTokenBalances) :
     /\ tx.postTokenBalances[i].mint = USDC_MINT_MAINNET
     /\ ExactChange(tx, i) > 0}

\* the ledger has answered request r and verifySolanaTransaction has judged
\* the transaction
LedgerJudged(r) ==
  /\ vreq[r].verification # NoVerification
  /\ vreq[r].verification.error # ErrException

\* C11: a successful transaction whose USDC credits all go to owners other
\* than the listing's creator_wallet, and whose account keys do not hold
\* the creator_wallet, is rejected with "Expected recipient not found in
\* transaction" whatever the amounts; no row, no token.
C11_ForeignCreditsRejected ==
  \A r \in VerifySlots :
    LET v  == vreq[r]
        tx == ledger[v.transactionSignature]
    IN  (/\ LedgerJudged(r)
         /\ tx.kind = "tx" /\ ~tx.err
         /\ UsdcCredits(tx) # {}
         /\ \A i \in UsdcCredits(tx) : tx.postTokenBalances[i].owner # v.creatorWallet
         /\ v.creatorWallet \notin tx.accountKeys) =>
          /\ ~v.verification.verified
          /\ v.verification.error = ErrRecipient
          /\ v.pc = "done" /\ v.status = 402
          /\ ~v.inserted /\ ~v.verified /\ v.accessToken = NoToken

\* C11 witness: a transaction crediting another owner exactly the price,
\* the creator not among its account keys, was answered 402
C11_Witness ==
  \E r \in VerifySlots :
    LET v  == vreq[r]
        tx == ledger[v.transactionSignature]
    IN  /\ v.pc = "done" /\ v.status = 402
        /\ v.verification.error = ErrRecipient
        /\ tx.kind = "tx" /\ ~tx.err
        /\ v.creatorWallet \notin tx.accountKeys
        /\ \E i \in UsdcCredits(tx) :
             /\ tx.postTokenBalances[i].owner # v.creatorWallet
             /\ ExactChange(tx, i) = Micro(v.expectedAmount)
        /\ \A i \in UsdcCredits(tx) : tx.postTokenBalances[i].owner # v.creatorWallet

\* C12: the step of POST /verify that resolves the listing ends the request
\* with 404 when the contentId is unknown and with 410 when the listing is
\* past its expires_at (500 when the query itself fails), so that no ledger
\* fetch, payment row or token follows.
C12_UnknownOrExpiredShortCircuits ==
  [][\A r \in VerifySlots :
       (vreq[r].pc = "content" /\ vreq'[r].pc # "content") =>
         /\ content[vreq[r].contentId] = <<>> =>
              vreq'[r].pc = "done" /\ vreq'[r].status \in {404, 500}
         /\ ListingExpired(vreq[r].contentId, now) =>
              vreq'[r].pc = "done" /\ vreq'[r].status \in {410, 500}]_vars

\* the number of payment_logs rows of a listing
RowsOfContent(contentId) ==
  CountRows({row \in BagToSet(payment_logs) : row.content_id = contentId},
            payment_logs)

\* C13: the payment_logs insert and the content.payments increment take
\* effect together or not at all: once no request is in flight, every
\* listing's payments counter equals the number of its payment_logs rows
\* (requests with real, not simulated, signatures).
C13_RecordAndCounterTogether ==
  (/\ \A r \in VerifySlots :
        /\ vreq[r].pc \in {"idle", "done"}
        /\ vreq[r].transactionSignature.prefix # "sim_"
   /\ \A g \in GateSlots : greq[g].pc \in {"idle", "done"}) =>
     \A c \in ListingIds : content[c][1].payments = RowsOfContent(c)

\* C14: of createPayment calls made one after another, a call that finds a
\* payment_logs row with its signature returns one of those rows and leaves
\* payment_logs and content as they are; a call that creates found no such
\* row, adds exactly its one row and increments the listing's payments
\* exactly once; no other step of a call writes.
C14_CreatePaymentIdempotent ==
  [][\A p \in CreateSlots :
       LET d        == preq[p].paymentData
           existing == {row \in BagToSet(payment_logs) :
                          row.transaction_signature = d.transactionSignature}
       IN  /\ (preq[p].pc = "check" /\ preq'[p].pc # "check" /\ existing # {}) =>
                /\ preq'[p].pc = "done"
                /\ preq'[p].outcome \in {"existing", "error"}
                /\ preq'[p].outcome = "existing" =>
                     /\ Len(preq'[p].returned) = 1
                     /\ preq'[p].returned[1] \in existing
           /\ (preq[p].pc # "done" /\ preq'[p].outcome = "created") =>
                /\ existing = {}
                /\ payment_logs' = payment_logs (+) SetToBag({CreatedRow(p)})
                /\ content' = [content EXCEPT
                                 ![d.contentId][1].payments = @ + 1]
                /\ preq'[p].returned = <<CreatedRow(p)>>
           /\ (preq'[p] # preq[p] /\ preq'[p].outcome # "created") =>
                payment_logs' = payment_logs /\ content' = content]_vars

\* C14 witness: a second call with the signature of a created payment has
\* returned the first call's row; one row, one increment
C14_Witness ==
  /\ preq[1].outcome = "created" /\ preq[2].outcome = "existing"
  /\ preq[1].paymentData.transactionSignature
       = preq[2].paymentData.transactionSignature
  /\ preq[1].paymentData.id # preq[2].paymentData.id
  /\ preq[2].returned = preq[1].returned
  /\ RowsWithSignature(preq[1].paymentData.transactionSignature) = 1
  /\ content[preq[1].paymentData.contentId][1].payments = 1

\* the expiresIn a token was issued with
IssuedFor == IF treq.expiresIn = <<>> THEN DefaultExpiresIn ELSE treq.expiresIn[1]

\* C15: verifyAccessToken of a token generateAccessToken made, called no
\* later than the token's exp, returns every member of the payload with the
\* value it was given (contentId, signature, payerWallet, type), and beside
\* them only iat and exp.
C15_RoundTrip ==
  (treq.pc = "checked" /\ treq.checkedAt <= treq.issuedAt + IssuedFor) =>
    /\ treq.result.valid
    /\ Len(treq.result.members) = Len(treq.payload) + 2
    /\ \A i \in 1..Len(treq.payload) : treq.result.members[i] = treq.payload[i]
    /\ \A i \in 1..Len(treq.result.members) :
         i > Len(treq.payload) => treq.result.members[i][1] \in {TextIat, TextExp}

\* C15 witness: a payload whose JSON needs escapes and whose base64 holds
\* '-' and '_' came back whole at the last instant before expiry
C15_Witness ==
  /\ treq.pc = "checked" /\ treq.result.valid
  /\ treq.checkedAt = treq.issuedAt + IssuedFor
  /\ \E i \in 1..Len(treq.payload) : 34 \in {treq.payload[i][2].text[k] :
                                              k \in 1..Len(treq.payload[i][2].text)}
  /\ {45, 95} \subseteq {treq.token[k] : k \in 1..Len(treq.token)}
  /\ \A i \in 1..Len(treq.payload) : treq.result.members[i] = treq.payload[i]

\* the claims a token carries, read without any check
CarriedClaims(token) == JsonParse(base64UrlDecodeText(Split(token, 46)[2])).members

\* the signature of a token is the server's
SignatureValid(token) ==
  LET parts == Split(token, 46)
  IN  Len(parts) = 3 /\ parts[3] = createSignatureText(parts[1] \o <<46>> \o parts[2])

\* C16: a token issued with expiresIn carries exp = iat + expiresIn, seven
\* days when expiresIn is left out; verifyAccessToken called after exp
\* rejects it though its signature is valid; and a token once rejected is
\* rejected by every later call.
C16_ExpiryIsAbsolute ==
  [][/\ (treq.pc = "idle" /\ treq'.pc = "issued") =>
          LET claims == CarriedClaims(treq'.token)
          IN  /\ GetMember(claims, TextIat) = JsonNumber(now)
              /\ GetMember(claims, TextExp)
                   = JsonNumber(now + (IF treq'.expiresIn = <<>> THEN 7 * 86400
                                       ELSE treq'.expiresIn[1]))
     /\ (treq'.pc = "checked" /\ treq' # treq) =>
          /\ now > treq.issuedAt + IssuedFor =>
               SignatureValid(treq.token) /\ ~treq'.result.valid
          /\ (treq.pc = "checked" /\ ~treq.result.valid) => ~treq'.result.valid
     /\ now' >= now]_vars

\* C16 witness: a token issued without expiresIn was rejected one second
\* after its seven days, its signature being valid, and rejected again later
C16_Witness ==
  /\ treq.pc = "checked" /\ treq.expiresIn = <<>>
  /\ treq.checkedAt = treq.issuedAt + DefaultExpiresIn + 1
  /\ now > treq.checkedAt
  /\ SignatureValid(treq.token)
  /\ ~treq.result.valid

\* C17: the ledger is read at a commitment at which the transaction can no
\* longer be dropped, so that every payment_logs row and every access token
\* rests on a transaction that is on the ledger.
C17_NothingRestsOnADroppedTransaction ==
  /\ \A row \in BagToSet(payment_logs) :
       ledger[row.transaction_signature].kind = "tx"
  /\ \A r \in VerifySlots :
       vreq[r].accessToken # NoToken =>
         ledger[vreq[r].transactionSignature].kind = "tx"

\* the errors of a failed verification
VerifierErrors ==
  {ErrNotFound, ErrTxFailed, ErrNoTransfers, ErrRecipient, ErrAmount, ErrException}

C19_ChallengeOrNotFoundOrExpired ==
  /\ ireq.pc = "done" =>
       \/ ireq.status = 500
       \/ content[ireq.contentId] = <<>> /\ ireq.status = 404
       \/ ireq.status = 410 /\ content[ireq.contentId] # <<>>
            /\ content[ireq.contentId][1].expires_at # <<>>
       \/ /\ ireq.status = 200
          /\ content[ireq.contentId] # <<>>
          /\ ireq.payment.amount = parseFloat(content[ireq.contentId][1].price_usdc, 2)
          /\ ireq.payment.currency = "USDC"
          /\ ireq.payment.recipient = content[ireq.contentId][1].creator_wallet
  /\ \A g \in GateSlots :
       (greq[g].pc = "done" /\ greq[g].status \in {402, 404, 410}) =>
          \/ content[greq[g].contentId] = <<>> /\ greq[g].status = 404
          \/ greq[g].status = 410 /\ ListingExpired(greq[g].contentId, now)
          \/ /\ greq[g].status = 402
             /\ content[greq[g].contentId] # <<>>
             /\ GateChallenge(greq[g]).amount
                  = parseFloat(content[greq[g].contentId][1].price_usdc, 2)
             /\ GateChallenge(greq[g]).currency = "USDC"
             /\ GateChallenge(greq[g]).recipient
                  = content[greq[g].contentId][1].creator_wallet

\* why verifyAccessToken or the gate turned the credential of request g down
FailureReason(g) ==
  LET token == g.paymentProof
  IN  IF Len(token) # 3 THEN "malformed"
      ELSE IF token[3] # createSignature(<<token[1], token[2]>>) THEN "signature"
      ELSE IF parseThrows(base64UrlDecode(token[2])) THEN "malformed"
      ELSE LET claims == parseClaims(base64UrlDecode(token[2]))
           IN  IF claims.exp # 0 /\ claims.exp < g.checkedAt THEN "expired"
               ELSE IF claims.contentId # g.contentId THEN "contentId"
               ELSE IF claims.type # "payment" THEN "type"
               ELSE "none"

\* request g is answered, its credential was checked and turned down, and the
\* facilitator did not vouch for it either
TurnedDown(g) ==
  /\ g.pc = "done" /\ g.paymentProof # NoToken
  /\ g.status \notin {404, 410, 500}
  /\ ~g.payment /\ ~g.next

\* C20: whatever made the credential fail (signature, exp, type, contentId,
\* form), the gate's response is the one and same 402 with the challenge of
\* the listing, equal to the response to a request without credential.
C20_FailureResponseTellsNoReason ==
  \A g \in GateSlots :
    TurnedDown(greq[g]) =>
      /\ FailureReason(greq[g]) # "none"
      /\ GateResponse(greq[g])
           = [status |-> 402, content |-> FALSE, error |-> "Payment Required",
              payment |-> Challenge("x402",
                            parseFloat(content[greq[g].contentId][1].price_usdc, 2),
                            "USDC", content[greq[g].contentId][1].creator_wallet)]

\* C20 witness: an issued token, its signature valid, presented after its
\* exp, was answered 402
C20_Witness ==
  \E g \in GateSlots :
    /\ TurnedDown(greq[g])
    /\ FailureReason(greq[g]) = "expired"
    /\ greq[g].paymentProof \in Issued
    /\ greq[g].status = 402

\* the deltas of a transaction: the entries of postTokenBalances in USDC
\* whose balance has changed
Deltas(tx) ==
  {i \in 1..Len(tx.postTokenBalances) :
     /\ tx.postTokenBalances[i].mint = USDC_MINT_MAINNET
     /\ ExactChange(tx, i) # 0}

\* the candidate of the two tiers as an index of postTokenBalances, 0 when
\* neither tier yields one
CandidateIndex(tx, recipient) ==
  LET owned == {i \in UsdcCredits(tx) : tx.postTokenBalances[i].owner = recipient}
  IN  IF owned # {} THEN Min(owned)
      ELSE IF recipient \in tx.accountKeys /\ UsdcCredits(tx) # {}
           THEN Min(UsdcCredits(tx))
           ELSE 0

\* the change of entry i of postTokenBalances as the Number the verifier
\* reports it
ReportedChange(tx, i) ==
  LET found == {j \in 1..Len(tx.preTokenBalances) :
                  tx.preTokenBalances[j].accountIndex
                    = tx.postTokenBalances[i].accountIndex}
  IN  FSub(parseFloat(tx.postTokenBalances[i].amount, USDC_DECIMALS),
           IF found = {} THEN Zero
           ELSE parseFloat(tx.preTokenBalances[Min(found)].amount, USDC_DECIMALS))

\* C21: on a successful transaction with deltas, the verdict is about the
\* candidate of the two tiers: the first credit owned by creator_wallet,
\* else (only when creator_wallet is among the account keys) the first
\* credit of any owner; with no candidate the verdict is "Expected recipient
\* not found in transaction"; the candidate is never a debit.
C21_CandidateIsTwoTierAndOrdered ==
  \A r \in VerifySlots :
    LET v  == vreq[r]
        tx == ledger[v.transactionSignature]
        c  == CandidateIndex(tx, v.creatorWallet)
    IN  (LedgerJudged(r) /\ tx.kind = "tx" /\ ~tx.err /\ Deltas(tx) # {}) =>
          /\ (c = 0) <=> (v.verification.error = ErrRecipient)
          /\ c # 0 =>
               /\ ExactChange(tx, c) > 0
               /\ v.verification.verified =>
                    /\ v.verification.details.recipient = tx.postTokenBalances[c].owner
                    /\ v.verification.details.amount = ReportedChange(tx, c)
               /\ ~v.verification.verified =>
                    /\ v.verification.error = ErrAmount
                    /\ v.verification.details.received = ReportedChange(tx, c)

\* C21 witness: the first credit of the transaction goes to another owner,
\* a later one to the creator, and the verdict is on the creator's
C21_Witness ==
  \E r \in VerifySlots :
    LET v  == vreq[r]
        tx == ledger[v.transactionSignature]
    IN  /\ LedgerJudged(r) /\ tx.kind = "tx" /\ ~tx.err
        /\ UsdcCredits(tx) # {}
        /\ tx.postTokenBalances[Min(UsdcCredits(tx))].owner # v.creatorWallet
        /\ v.creatorWallet \in tx.accountKeys
        /\ CandidateIndex(tx, v.creatorWallet) > Min(UsdcCredits(tx))
        /\ v.verification.verified
        /\ v.verification.details.recipient = v.creatorWallet

\* the token accounts of USDC a transaction has touched: those with a
\* record before it, after it, or both
TouchedAccounts(tx) ==
  {tx.preTokenBalances[j].accountIndex :
     j \in {k \in 1..Len(tx.preTokenBalances) :
              tx.preTokenBalances[k].mint = USDC_MINT_MAINNET}}
  \cup {tx.postTokenBalances[i].accountIndex :
          i \in {k \in 1..Len(tx.postTokenBalances) :
                   tx.postTokenBalances[k].mint = USDC_MINT_MAINNET}}

\* the balance of account a on one side of the transaction, 0 with no record
BalanceOf(balances, a) ==
  LET found == {j \in 1..Len(balances) : balances[j].accountIndex = a}
  IN  IF found = {} THEN 0 ELSE balances[Min(found)].amount

\* postBalance - preBalance of account a, exactly
NetChange(tx, a) ==
  BalanceOf(tx.postTokenBalances, a) - BalanceOf(tx.preTokenBalances, a)

\* C22: on a successful transaction the extracted transfers are the touched
\* USDC accounts with a net change, one transfer each, and the verdict is
\* "No USDC transfers found in transaction" exactly when no touched USDC
\* account has a net change.
C22_TransfersAreTheTouchedAccounts ==
  \A r \in VerifySlots :
    LET v         == vreq[r]
        tx        == ledger[v.transactionSignature]
        transfers == usdcTransfers(tx)
        changed   == {a \in TouchedAccounts(tx) : NetChange(tx, a) # 0}
    IN  (LedgerJudged(r) /\ tx.kind = "tx" /\ ~tx.err) =>
          /\ \A a \in changed :
               Cardinality({i \in 1..Len(transfers) :
                              transfers[i].accountIndex = a}) = 1
          /\ \A i \in 1..Len(transfers) : transfers[i].accountIndex \in changed
          /\ (v.verification.error = ErrNoTransfers) <=> (changed = {})

\* the rows of payment_logs that were not there before the step
RowsAdded ==
  {row \in BagToSet(payment_logs') :
     CopiesIn(row, payment_logs') > CopiesIn(row, payment_logs)}

\* the rows of payment_logs that are no longer there after the step
RowsRemoved ==
  {row \in BagToSet(payment_logs) :
     CopiesIn(row, payment_logs') < CopiesIn(row, payment_logs)}

C24_LedgerErrorIsNotNotFoundAndOneFetch ==
  \A r \in VerifySlots :
    LET v == vreq[r]
    IN  /\ v.fetches <= 1
        /\ v.verification # NoVerification => v.fetches = 1
        /\ v.fetches = 0 => v.verification = NoVerification
        /\ v.fetched = "error" =>
             /\ v.pc = "done" /\ v.status = 402
             /\ VerifyResponse(v).error = ErrException
             /\ VerifyResponse(v).error # ErrNotFound
        /\ (v.verification.error = ErrNotFound) <=> (v.fetched = "null")

\* C24 witness: the fetch has thrown and the request was answered after
\* that one call
C24_Witness ==
  \E r \in VerifySlots :
    /\ vreq[r].pc = "done" /\ vreq[r].fetched = "error" /\ vreq[r].fetches = 1
    /\ vreq[r].verification.error = ErrException

\* the step answers POST /api/payment/initiate
InitiateAnswers == ireq.pc = "idle" /\ ireq'.pc = "done"

\* the step is one of gate request g up to its answer 402: the content
\* query, or the facilitator's refusal
GateAsksForPayment(g) ==
  /\ greq[g].pc \in {"content", "facilitator"}
  /\ greq'[g].pc = "done" /\ greq'[g].status = 402

Quiescent ==
  /\ \A r \in VerifySlots :
       /\ vreq[r].pc \in {"idle", "done"}
       /\ vreq[r].transactionSignature.prefix # "sim_"
  /\ \A g \in GateSlots : greq[g].pc \in {"idle", "done"}

\* the number of completed payment_logs rows of a listing
CompletedRowsOfContent(contentId) ==
  CountRows({row \in BagToSet(payment_logs) :
               row.content_id = contentId /\ row.payment_status = "completed"},
            payment_logs)

\* C26: no step lowers a listing's payments counter, and in every state the
\* verify requests and legacy gate verifications reach with no request in
\* flight each listing's counter is the number of its completed
\* payment_logs rows.
C26_CounterIsTheNumberOfCompletedRows ==
  [][/\ \A c \in ListingIds : content'[c][1].payments >= content[c][1].payments
     /\ Quiescent' =>
          \A c \in ListingIds :
            content'[c][1].payments = CompletedRowsOfContent(c)'
    ]_vars

\* requests q and r, and no others, are for the same listing with
\* different signatures
DistinctPayments(q, r) ==
  /\ q # r
  /\ \A x \in VerifySlots \ {q, r} : vreq[x].pc = "idle"
  /\ vreq[q].pc # "idle" /\ vreq[r].pc # "idle"
  /\ vreq[q].contentId = vreq[r].contentId
  /\ vreq[q].transactionSignature # vreq[r].transactionSignature

\* C28: of two verify requests in flight together for the same listing with
\* different paid signatures, neither is held up while the other waits for
\* the ledger, and once both are answered each has its own payment_logs
\* row, the listing's payments counter is 2 higher, and each holds an
\* access token carrying its own signature.
C28_DistinctPaymentsDoNotInterfere ==
  \A q \in VerifySlots : \A r \in VerifySlots :
    DistinctPayments(q, r) =>
      LET c == vreq[r].contentId
      IN  /\ (vreq[q].pc = "ledger" /\ vreq[r].pc # "done") => ENABLED VerifyStep(r)
          /\ content[c][1].payments <= RowsOfContent(c)
          /\ (vreq[q].pc = "done" /\ vreq[r].pc = "done") =>
               /\ vreq[q].status = 200 /\ vreq[r].status = 200
               /\ RowsWithSignature(vreq[q].transactionSignature) = 1
               /\ RowsWithSignature(vreq[r].transactionSignature) = 1
               /\ RowsOfContent(c) = 2
               /\ content[c][1].payments = 2
               /\ vreq[q].accessToken # vreq[r].accessToken
               /\ LET claims == verifyAccessToken(vreq[r].accessToken, now)
                  IN  /\ claims.valid
                      /\ claims.signature = vreq[r].transactionSignature
                      /\ claims.contentId = c

\* C28 witness: both requests were answered after the second had inserted
\* its row before the first updated the counter
C28_Witness ==
  \E q \in VerifySlots : \E r \in VerifySlots :
    /\ DistinctPayments(q, r)
    /\ vreq[q].pc = "update" /\ vreq[r].pc = "update"
    /\ RowsOfContent(vreq[r].contentId) = 2
    /\ content[vreq[r].contentId][1].payments = 0

\* C27: a verified transaction has credited a USDC account owned by the
\* listing's creator_wallet with an amount within the tolerance of the
\* price, and the recipient reported is the creator_wallet; a transaction
\* that credits no account of the creator is never verified.
C27_VerifiedMeansRecipientWasCredited ==
  \A r \in VerifySlots :
    LET v  == vreq[r]
        tx == ledger[v.transactionSignature]
    IN  v.verification.verified =>
          /\ tx.kind = "tx"
          /\ v.verification.details.recipient = v.creatorWallet
          /\ \E i \in UsdcCredits(tx) :
               /\ tx.postTokenBalances[i].owner = v.creatorWallet
               /\ Abs(ExactChange(tx, i) - Micro(v.expectedAmount))
                    <= Band(v.expectedAmount)

\* C29: once the row of a listing is deleted (by DELETE /api/content/:id or by
\* the sweep of expired listings) the gate grants nothing for its id: a
\* request whose content query runs after the deletion ends there, without
\* next(), answered 404 (500 when the query itself fails), whatever access
\* token it carries; and no row of payment_logs refers to a deleted listing
Deleted(id) == id \in ListingIds /\ content[id] = <<>>

C29_DeletedListingIsGoneForTheGate ==
  /\ [](\A id \in ListingIds :
          Deleted(id) => \A row \in BagToSet(payment_logs) : row.content_id # id)
  /\ [][\A g \in GateSlots :
          (/\ greq[g].pc = "content"
           /\ Deleted(greq[g].contentId)
           /\ greq'[g] # greq[g])
          => /\ greq'[g].pc = "done"
             /\ ~greq'[g].next
             /\ greq'[g].status \in {404, 500}
             /\ Deleted(greq[g].contentId)']_vars

\* the creator deleted the listing after a payment for it was verified, and a
\* request carrying the still valid access token of that payment got 404
C29_Witness ==
  /\ dreq.pc = "done" /\ dreq.status = 200 /\ dreq.id = ContentB
  /\ greq[1].pc = "done" /\ greq[1].status = 404 /\ ~greq[1].next
  /\ greq[1].contentId = ContentB
  /\ greq[1].paymentProof \in Issued
  /\ \A row \in BagToSet(payment_logs) : row.content_id # ContentB
  /\ tokenGrantsAccess(verifyAccessToken(greq[1].paymentProof, now), ContentB)

\* C30: DatabaseManager.query with option retries = r runs the statement at
\* most r + 1 times (3 without the option); the first attempt that succeeds
\* ends the call with its result; delay() is called with 100 * 2^attempt
\* after a failed attempt that another attempt follows, and not otherwise;
\* after r + 1 failures the call ends by throwing the last error; and every
\* call ends
C30_QueryIsABoundedRetryLoop ==
  /\ [](/\ qreq.executions <= qreq.retries + 1
        /\ (qreq.pc # "idle" /\ qreq.options = <<>>) => qreq.executions <= 3
        /\ (qreq.pc # "idle" /\ qreq.options # <<>>) =>
             qreq.retries = qreq.options[1]
        /\ qreq.pc # "idle" =>
             /\ Len(qreq.delays) =
                  (IF Len(qreq.failures) < qreq.retries
                   THEN Len(qreq.failures) ELSE qreq.retries)
             /\ \A k \in 1..Len(qreq.delays) : qreq.delays[k] = 100 * 2 ^ (k - 1)
        /\ qreq.outcome = "result" =>
             /\ qreq.returned = qreq.executions
             /\ Len(qreq.failures) = qreq.executions - 1
        /\ qreq.outcome = "throw" =>
             /\ qreq.executions = qreq.retries + 1
             /\ Len(qreq.failures) = qreq.retries + 1
             /\ qreq.thrown = qreq.failures[qreq.retries + 1]
        /\ qreq.outcome = "cached" => qreq.executions = 0)
  /\ [][qreq.pc = "done" => qreq' = qreq]_vars
  /\ (qreq.pc # "idle") ~> (qreq.pc = "done")

\* a call without the retries option whose three attempts all failed: it
\* waited 100 and 200 ms and threw the third error
C30_Witness ==
  /\ qreq.pc = "done" /\ qreq.outcome = "throw"
  /\ qreq.options = <<>> /\ qreq.executions = 3
  /\ qreq.delays = <<100, 200>>
  /\ qreq.failures[1] # qreq.failures[3]
  /\ qreq.thrown = qreq.failures[3]

====
